---- MODULE Spec2Model ----
(***************************************************************************)
(* Model of the output parsers of py_alf.py: _read_scalJ (scalar           *)
(* observables) and _read_eqJ (equal-time correlation functions).          *)
(*                                                                         *)
(* A file is the list returned by f.readlines(): a sequence of lines.  A   *)
(* line is modelled by what str.split() makes of it: the sequence of its   *)
(* whitespace-separated tokens, each token a string.  Floats are modelled  *)
(* in units of 10^-4, so that the token "1.2345" converts to 12345.        *)
(* Source line indices are 0-based; Line(lines, i) is lines[i].            *)
(***************************************************************************)
EXTENDS Integers, Sequences, FiniteSets, TLC

VARIABLES
    lines,   \* the file handed to a parser: what f.readlines() returns
    result,  \* the outcome of the last call: what it returned or raised
    fs,      \* the simulation directory: whether it exists, and its files
    alf,     \* the ALF source directory: whether it exists, and its state
    cwd,     \* the working directory of the process (os.getcwd())
    cmds,    \* the subprocess invocations of the call in progress, in order
    pc,      \* the position of the call in progress, "idle" between calls
    args,    \* the arguments (and saved locals) of the call in progress
    calls    \* the parse calls made so far, each with its outcome

vars == <<lines, result, fs, alf, cwd, cmds, pc, args, calls>>

(***************************************************************************)
(* Bounds of the model.                                                    *)
(***************************************************************************)
\* longest file made of freely chosen lines
MaxLines == 6
\* most blocks of a generated equal-time file
MaxNx == 3
\* largest orbital count of a generated equal-time file
MaxOrb == 2
\* most lines appended after the last complete block
MaxTrail == 2
\* most leading columns of a generated data line
MaxLead == 3

(***************************************************************************)
(* Tokens and their conversion to floats.                                  *)
(***************************************************************************)
\* the value of a numeric token, in units of 10^-4; -1 stands for "float()
\* raises ValueError" (no numeric token of the model is negative)
Float(tok) ==
    CASE tok = "1.2345" -> 12345
      [] tok = "0.001"  -> 10
      [] tok = "0.98"   -> 9800
      [] tok = "0.0001" -> 1
      [] tok = "0.0"    -> 0
      [] tok = "1"      -> 10000
      [] tok = "2"      -> 20000
      [] tok = "3"      -> 30000
      [] tok = "4"      -> 40000
      [] OTHER          -> -1

IsNumeric(tok) == Float(tok) >= 0

AllNumeric(toks) == \A j \in 1..Len(toks) : IsNumeric(toks[j])

\* lines[i] for a 0-based, in-range index i
Line(ls, i) == ls[i + 1]

\* toks[-n:]
LastTokens(toks, n) ==
    IF Len(toks) <= n THEN toks ELSE SubSeq(toks, Len(toks) - n + 1, Len(toks))

\* toks[n:]
TokensFrom(toks, n) ==
    IF Len(toks) <= n THEN << >> ELSE SubSeq(toks, n + 1, Len(toks))

\* the floats of a token list all of whose tokens are numeric
Floats(toks) == [j \in 1..Len(toks) |-> Float(toks[j])]

\* a vector of n copies of v (numpy broadcasting of a single value)
Fill(v, n) == [j \in 1..n |-> v]

\* assigning vals to an array slot of width n: numpy accepts n values, or a
\* single value that it broadcasts over the slot, and raises ValueError for
\* any other count (0 values included)
CanAssign(vals, n) == Len(vals) = n \/ Len(vals) = 1

Assigned(vals, n) == IF Len(vals) = n THEN vals ELSE Fill(vals[1], n)

\* int(np.sqrt(n)) for a small n >= 0
ISqrt(n) == CHOOSE r \in 0..n : r * r <= n /\ (r + 1) * (r + 1) > n

\* int(a / b) for b > 0: true division, then truncation towards zero
IntDiv(a, b) == IF a >= 0 THEN a \div b ELSE -((-a) \div b)

\* name.endswith(suffix), names and suffixes being sequences of characters
EndsWith(name, suffix) ==
    /\ Len(name) >= Len(suffix)
    /\ SubSeq(name, Len(name) - Len(suffix) + 1, Len(name)) = suffix

(***************************************************************************)
(* _read_scalJ                                                             *)
(***************************************************************************)
\* the state before any parse call
NoResult == [op |-> "none"]

\* what a _read_scalJ call leaves: status "ok" with the returned record
\* {'sign': sign, 'obs': obs}, or the exception raised; consulted is the set
\* of line indices the call subscripted
ScalReturn(sign, obs, consulted) ==
    [op |-> "scalJ", status |-> "ok", sign |-> sign, obs |-> obs,
     consulted |-> consulted]

ScalRaise(exc, consulted) ==
    [op |-> "scalJ", status |-> exc, sign |-> << >>, obs |-> << >>,
     consulted |-> consulted]

\* a slip: the half rounded up instead of truncated
NObsRoundUp(nLines) == IntDiv(nLines - 1, 2)

\* N_obs = int((len(lines)-2)/2)
NObs(nLines) == IntDiv(nLines - 2, 2)

\* a slip: consecutive lines taken for the observables
ObsLineIndexDense(iobs) == iobs + 2

\* a slip: the observables taken from the lines in between
ObsLineIndexOdd(iobs) == 2 * iobs + 1

\* the index of the line holding observable iobs
ObsLineIndex(iobs) == 2 * iobs + 2

\* for iobs in range(N_obs): obs[iobs] = lines[2*iobs+2].split()[-2:]
RECURSIVE ObsLoop(_, _, _, _, _, _)
ObsLoop(ls, iobs, n, sign, obs, consulted) ==
    IF iobs >= n THEN ScalReturn(sign, obs, consulted)
    ELSE LET idx == ObsLineIndex(iobs) IN
         IF idx >= Len(ls) THEN ScalRaise("IndexError", consulted)
         ELSE LET toks == LastTokens(Line(ls, idx), 2)
                  seen == consulted \cup {idx}
              IN IF ~AllNumeric(toks) \/ ~CanAssign(toks, 2)
                 THEN ScalRaise("ValueError", seen)
                 ELSE ObsLoop(ls, iobs + 1, n, sign,
                              Append(obs, Assigned(Floats(toks), 2)), seen)

_read_scalJ(ls) ==
    LET nLines == Len(ls)
        N_obs  == NObs(nLines)
    IN  IF nLines = 0 THEN ScalRaise("IndexError", {})
        ELSE LET toks == LastTokens(Line(ls, nLines - 1), 2) IN
             IF ~AllNumeric(toks) THEN ScalRaise("ValueError", {nLines - 1})
             ELSE IF N_obs < 0 THEN ScalRaise("ValueError", {nLines - 1})
             ELSE ObsLoop(ls, 0, N_obs, Floats(toks), << >>, {nLines - 1})

(***************************************************************************)
(* _read_eqJ                                                               *)
(***************************************************************************)
\* what a _read_eqJ call leaves: status "ok" with the returned record
\* {x_name: x, 'dat': dat} (x a sequence of N_x rows, dat a function of
\* <<i_x, i_orb1, i_orb2>>, shape the shape of dat), or the exception raised.
\* N_orb and N_x are the locals of the call (-1: not assigned); scanned is
\* the set of line indices examined by the N_orb scan, consumed the set of
\* line indices subscripted by the block loop
EqResult(status, x_name, x, dat, N_orb, N_x, scanned, consumed) ==
    [op |-> "eqJ", status |-> status, x_name |-> x_name, x |-> x, dat |-> dat,
     shape |-> <<N_x, N_orb, N_orb, 4>>, N_orb |-> N_orb, N_x |-> N_x,
     scanned |-> scanned, consumed |-> consumed]

\* a slip: the two coordinate names exchanged
XNameSwapped(name) ==
    IF EndsWith(name, "K") THEN "r"
    ELSE IF EndsWith(name, "R") THEN "k"
    ELSE ""

\* x_name, "" while unassigned (a name ending in neither K nor R)
XName(name) ==
    IF EndsWith(name, "K") THEN "k"
    ELSE IF EndsWith(name, "R") THEN "r"
    ELSE ""

\* the first index the N_orb scan examines
ScanStart == 1

\* for i in range(1, N_lines): if len(lines[i].split()) == 2: ...; break
\* the index at which the scan breaks, Len(ls) when it does not break
RECURSIVE ScanFrom(_, _)
ScanFrom(ls, i) ==
    IF i >= Len(ls) THEN Len(ls)
    ELSE IF Len(Line(ls, i)) = 2 THEN i
    ELSE ScanFrom(ls, i + 1)

\* a slip: the scan without its break, so that the last 2-token line counts
LastShort(ls) ==
    LET short == {i \in ScanStart..(Len(ls) - 1) : Len(Line(ls, i)) = 2}
    IN  IF short = {} THEN Len(ls)
        ELSE CHOOSE i \in short : \A j \in short : j <= i

FirstShort(ls) == ScanFrom(ls, ScanStart)

\* N_orb = int(np.sqrt(i-1))
OrbOfIndex(i) == ISqrt(i - 1)

\* the lines of one block
Stride(N_orb) == 1 + N_orb * N_orb

\* a slip: an incomplete last block counted as a block
NxOfRoundUp(nLines, N_orb) == IntDiv(nLines + Stride(N_orb) - 1, Stride(N_orb))

\* N_x = int(N_lines / (1 + N_orb**2))
NxOf(nLines, N_orb) == IntDiv(nLines, Stride(N_orb))

\* the index of the header line of block i_x
HeaderIndex(i_x, N_orb) == i_x * Stride(N_orb)

\* a slip: the two orbital indices exchanged (column-major order)
DatIndexColumnMajor(i_x, N_orb, i_orb1, i_orb2) ==
    i_x * Stride(N_orb) + 1 + i_orb1 + i_orb2 * N_orb

\* the index of the data line of dat[i_x, i_orb1, i_orb2]
DatIndex(i_x, N_orb, i_orb1, i_orb2) ==
    i_x * Stride(N_orb) + 1 + i_orb1 * N_orb + i_orb2

\* the tokens of a data line that np.loadtxt is given
DatTokens(toks) == TokensFrom(toks, 2)

\* the state of the block loop: acc.err is the exception raised, "" if none
RECURSIVE Orb2Loop(_, _, _, _, _, _)
Orb2Loop(ls, N_orb, i_x, i_orb1, i_orb2, acc) ==
    IF acc.err # "" \/ i_orb2 >= N_orb THEN acc
    ELSE LET idx == DatIndex(i_x, N_orb, i_orb1, i_orb2) IN
         IF idx >= Len(ls) THEN [acc EXCEPT !.err = "IndexError"]
         ELSE LET toks == DatTokens(Line(ls, idx))
                  seen == acc.consumed \cup {idx}
              IN IF ~AllNumeric(toks) \/ ~CanAssign(toks, 4)
                 THEN [acc EXCEPT !.err = "ValueError", !.consumed = seen]
                 ELSE Orb2Loop(ls, N_orb, i_x, i_orb1, i_orb2 + 1,
                        [acc EXCEPT
                           !.dat = (<<i_x, i_orb1, i_orb2>>
                                      :> Assigned(Floats(toks), 4)) @@ @,
                           !.consumed = seen])

RECURSIVE Orb1Loop(_, _, _, _, _)
Orb1Loop(ls, N_orb, i_x, i_orb1, acc) ==
    IF acc.err # "" \/ i_orb1 >= N_orb THEN acc
    ELSE Orb1Loop(ls, N_orb, i_x, i_orb1 + 1,
                  Orb2Loop(ls, N_orb, i_x, i_orb1, 0, acc))

RECURSIVE XLoop(_, _, _, _, _)
XLoop(ls, N_orb, N_x, i_x, acc) ==
    IF acc.err # "" \/ i_x >= N_x THEN acc
    ELSE LET idx == HeaderIndex(i_x, N_orb) IN
         IF idx >= Len(ls) THEN [acc EXCEPT !.err = "IndexError"]
         ELSE LET toks == Line(ls, idx)
                  seen == acc.consumed \cup {idx}
              IN IF ~AllNumeric(toks) \/ ~CanAssign(toks, 2)
                 THEN [acc EXCEPT !.err = "ValueError", !.consumed = seen]
                 ELSE XLoop(ls, N_orb, N_x, i_x + 1,
                        Orb1Loop(ls, N_orb, i_x, 0,
                          [acc EXCEPT
                             !.x = Append(@, Assigned(Floats(toks), 2)),
                             !.consumed = seen]))

_read_eqJ(name, ls) ==
    LET N_lines == Len(ls)
        found   == FirstShort(ls)
        scanned == {i \in ScanStart..(N_lines - 1) : i <= found}
    IN  IF found >= N_lines /\ N_lines - 1 < ScanStart
        THEN \* the loop body never ran: i is unbound at N_orb = int(np.sqrt(i-1))
             EqResult("UnboundLocalError", XName(name), << >>, << >>, -1, -1,
                      scanned, {})
        ELSE LET N_orb == IF found < N_lines THEN OrbOfIndex(found)
                          ELSE OrbOfIndex(N_lines - 1)
                 N_x   == NxOf(N_lines, N_orb)
                 acc   == XLoop(ls, N_orb, N_x, 0,
                                [x |-> << >>, dat |-> << >>, consumed |-> {},
                                 err |-> ""])
             IN  IF acc.err # ""
                 THEN EqResult(acc.err, XName(name), << >>, << >>, N_orb, N_x,
                               scanned, acc.consumed)
                 ELSE IF XName(name) = ""
                 THEN \* x_name is unbound at the return statement
                      EqResult("UnboundLocalError", "", << >>, << >>, N_orb,
                               N_x, scanned, acc.consumed)
                 ELSE EqResult("ok", XName(name), acc.x, acc.dat, N_orb, N_x,
                               scanned, acc.consumed)

(***************************************************************************)
(* The files given to the parsers (what f.readlines() returns).            *)
(***************************************************************************)
\* lines of which the short files are freely made: a labelled pair, a bare
\* pair, a lone label, a lone number, a blank line
LineSet ==
    { <<"Obs1", "1.2345", "0.001">>, <<"0.98", "0.0001">>, <<"header">>,
      <<"0.98">>, << >> }

FreeFiles == UNION {[1..n -> LineSet] : n \in 0..MaxLines}

\* the scalar file of the concrete scenario
ScenarioFile ==
    << <<"header">>, <<"footer-placeholder">>, <<"Obs1", "1.2345", "0.001">>,
       <<"Obs1", "1.2345", "0.001">>, <<"sign-label", "0.98", "0.0001">> >>

NumTok == <<"0.98", "0.001", "1.2345", "0.0001">>

Num(n) == NumTok[(n % 4) + 1]

IdxTok == <<"1", "2", "3", "4">>

\* the header line of block i_x: <kx> <ky>
HeaderLine(i_x) == <<Num(i_x), Num(i_x + 1)>>

\* a data line with k leading columns (the orbital indices first) followed
\* by 4 values
DataLine(i_x, o1, o2, k) ==
    [j \in 1..k |-> IF j = 1 THEN IdxTok[o1 + 1]
                    ELSE IF j = 2 THEN IdxTok[o2 + 1] ELSE "re"]
    \o [j \in 1..4 |-> Num(i_x + 2 * o1 + o2 + j)]

\* N_x blocks of one header line and N_orb*N_orb data lines
BlockFile(N_x, N_orb, k) ==
    [p \in 1..(N_x * (1 + N_orb * N_orb)) |->
        LET i_x == (p - 1) \div (1 + N_orb * N_orb)
            q   == (p - 1) % (1 + N_orb * N_orb)
        IN  IF q = 0 THEN HeaderLine(i_x)
            ELSE DataLine(i_x, (q - 1) \div N_orb, (q - 1) % N_orb, k)]

\* lines found after the last complete block: a header, a data line, a blank
TrailSet == { <<"0.0", "0.0">>, <<"1", "1", "0.98", "0.001", "0.98", "0.001">>, << >> }

\* lines that replace one line of a generated file
OddSet ==
    { << >>, <<"0.98">>, <<"0.0", "0.98">>, <<"1", "2", "1.2345">>,
      <<"1", "1", "0.98", "re", "0.98", "0.001">>, <<"kx", "ky">> }

Replaced(ls, p, l) == [ls EXCEPT ![p] = l]

\* generated files followed by trailing lines, with any number of leading
\* columns, and those of the two-column format with one line replaced
EqFiles ==
    LET tail == { [j \in 1..r |-> t] : r \in 0..MaxTrail, t \in TrailSet }
        full(leads) ==
            { BlockFile(N_x, N_orb, k) \o t :
                N_x \in 1..MaxNx, N_orb \in 1..MaxOrb, k \in leads, t \in tail }
    IN  full(0..MaxLead)
        \cup UNION { { Replaced(f, p, l) : p \in 1..Len(f), l \in OddSet } :
                       f \in full({2}) }

Files == FreeFiles \cup {ScenarioFile} \cup EqFiles

\* the names _read_eqJ is called with
EqNames == { "Green_eqJK", "Green_eqJR" }

(***************************************************************************)
(* The state machine: a file, and the outcome of the last parse call.      *)
(***************************************************************************)
\* the parts of the state the parsers of a single file never touch
world == <<fs, alf, cwd, cmds, pc, args, calls>>

NoDir == [exists |-> FALSE, files |-> << >>]

NoArgs == [fn |-> "none"]

Home == "/home/user"

Quiet ==
    /\ fs = NoDir
    /\ alf = NoDir
    /\ cwd = Home
    /\ cmds = << >>
    /\ pc = "idle"
    /\ args = NoArgs
    /\ calls = << >>

Init ==
    /\ lines \in Files
    /\ result = NoResult
    /\ Quiet

\* a call of _read_scalJ on the file
ReadScalJ ==
    /\ result' = _read_scalJ(lines)
    /\ UNCHANGED <<lines, world>>

\* a call of _read_eqJ on the file
ReadEqJ ==
    /\ \E name \in EqNames : result' = _read_eqJ(name, lines)
    /\ UNCHANGED <<lines, world>>

Next == ReadScalJ \/ ReadEqJ

Spec == Init /\ [][Next]_vars

(***************************************************************************)
(* Vocabulary of the claims, stated on the file alone.                     *)
(***************************************************************************)
\* the line ends in two numeric tokens
EndsInTwoNumbers(l) ==
    Len(l) >= 2 /\ IsNumeric(l[Len(l) - 1]) /\ IsNumeric(l[Len(l)])

\* the values of the last two tokens of such a line
LastTwoValues(l) == <<Float(l[Len(l) - 1]), Float(l[Len(l)])>>

\* the line ends in four numeric tokens
EndsInFourNumbers(l) ==
    Len(l) >= 4 /\ \A j \in 0..3 : IsNumeric(l[Len(l) - j])

\* the values of the last four tokens of such a line
LastFourValues(l) == [j \in 1..4 |-> Float(l[Len(l) - 4 + j])]

\* a header line: exactly two tokens, both numeric
IsHeader(l) == Len(l) = 2 /\ EndsInTwoNumbers(l)

\* the parsed file is a scalar file of nLines lines whose observable lines
\* 2, 4, ..., 2n and whose last line end in two numeric tokens
ScalarFile(nLines, n) ==
    /\ result.op = "scalJ"
    /\ Len(lines) = nLines
    /\ EndsInTwoNumbers(Line(lines, nLines - 1))
    /\ \A i \in 0..(n - 1) : EndsInTwoNumbers(Line(lines, 2 * i + 2))

\* what the scalar claims say is returned for n observables
ScalarRecord(n) ==
    /\ result.status = "ok"
    /\ Len(result.obs) = n
    /\ \A i \in 0..(n - 1) :
          result.obs[i + 1] = LastTwoValues(Line(lines, 2 * i + 2))
    /\ result.sign = LastTwoValues(Line(lines, Len(lines) - 1))

\* the parsed file is made of nx blocks of one header line and norb*norb data
\* lines, each data line having lead leading columns followed by four numbers
BlockFormat(nx, norb, lead) ==
    /\ result.op = "eqJ"
    /\ Len(lines) = nx * (1 + norb * norb)
    /\ \A p \in 0..(Len(lines) - 1) :
          IF p % (1 + norb * norb) = 0 THEN IsHeader(Line(lines, p))
          ELSE /\ Len(Line(lines, p)) = lead + 4
               /\ EndsInFourNumbers(Line(lines, p))

\* what the equal-time claims say is returned for nx blocks of norb orbitals
BlockRecord(nx, norb) ==
    /\ result.status = "ok"
    /\ Len(result.x) = nx
    /\ \A i_x \in 0..(nx - 1) :
          result.x[i_x + 1] = LastTwoValues(Line(lines, i_x * (1 + norb * norb)))
    /\ result.shape = <<nx, norb, norb, 4>>
    /\ DOMAIN result.dat = (0..(nx - 1)) \X (0..(norb - 1)) \X (0..(norb - 1))
    /\ \A i_x \in 0..(nx - 1) : \A o1, o2 \in 0..(norb - 1) :
          result.dat[<<i_x, o1, o2>>] =
             LastFourValues(Line(lines, i_x * (1 + norb * norb) + 1 + o1 * norb + o2))

\* the sizes a claim about the parsed file ranges over
Sizes == 0..Len(lines)

\* the numbers of blocks of norb*norb data lines the file can be cut into:
\* the nx in Sizes with nx * (1 + norb^2) = Len(lines)
BlockCounts(norb) ==
    IF Len(lines) % (1 + norb * norb) = 0
    THEN {Len(lines) \div (1 + norb * norb)} ELSE {}

(***************************************************************************)
(* C1: for a scalar file of L = 2N+2 lines whose lines 2, 4, ..., 2N and   *)
(* whose last line end in two numeric tokens, _read_scalJ returns N rows,  *)
(* row i being the last two tokens of line 2i+2, and sign the last two     *)
(* tokens of the last line, whatever labels precede them.                  *)
(***************************************************************************)
C1_ScalarRoundTrip ==
    \A n \in Sizes : ScalarFile(2 * n + 2, n) => ScalarRecord(n)

\* two observables on different lines, one labelled and one bare
C1_Witness ==
    /\ ScalarFile(6, 2)
    /\ Line(lines, 2) # Line(lines, 4)
    /\ Len(Line(lines, 2)) = 3 /\ ~IsNumeric(Line(lines, 2)[1])
    /\ Len(Line(lines, 4)) = 2
    /\ result.status = "ok"

(***************************************************************************)
(* C2: for an equal-time file of N_x >= 2 blocks, each one 2-token header  *)
(* line followed by N_orb*N_orb data lines (N_orb >= 1; a data line being  *)
(* two orbital-index columns and four values), _read_eqJ returns N_x       *)
(* coordinate rows, row i_x the two floats of line i_x*(1+N_orb^2), and    *)
(* dat of shape [N_x, N_orb, N_orb, 4] with dat[i_x, o1, o2] taken from    *)
(* line i_x*(1+N_orb^2) + 1 + o1*N_orb + o2.                               *)
(***************************************************************************)
C2_EqualTimeRoundTrip ==
    result.op = "eqJ" =>
       \A norb \in Sizes : \A nx \in BlockCounts(norb) :
          (nx >= 2 /\ norb >= 1 /\ BlockFormat(nx, norb, 2))
             => BlockRecord(nx, norb)

\* three blocks of two orbitals, the lines of dat[0,0,1] and dat[0,1,0]
\* holding different values
C2_Witness ==
    /\ BlockFormat(3, 2, 2)
    /\ result.status = "ok"
    /\ LastFourValues(Line(lines, 2)) # LastFourValues(Line(lines, 3))
    /\ Line(lines, 0) # Line(lines, 5)

(***************************************************************************)
(* C3: an equal-time file of exactly one block (one 2-token header line    *)
(* followed by N_orb*N_orb data lines, N_orb >= 1) parses to one           *)
(* coordinate row and dat of shape [1, N_orb, N_orb, 4].                   *)
(***************************************************************************)
C3_SingleBlock ==
    result.op = "eqJ" =>
       \A norb \in Sizes : \A nx \in BlockCounts(norb) :
          (nx = 1 /\ norb >= 1 /\ BlockFormat(nx, norb, 2))
             => BlockRecord(nx, norb)

(***************************************************************************)
(* C4: every data line contributes its last 4 tokens as dat[i_x, o1, o2],  *)
(* whatever number k >= 0 of leading columns it carries, and no error      *)
(* occurs.                                                                 *)
(***************************************************************************)
C4_LastFourTokens ==
    result.op = "eqJ" =>
       \A norb \in Sizes : \A nx \in BlockCounts(norb) : \A lead \in Sizes :
          (nx >= 2 /\ norb >= 1 /\ BlockFormat(nx, norb, lead))
             => BlockRecord(nx, norb)

(***************************************************************************)
(* C5 as claimed: a scalar file whose number of lines beyond the first two *)
(* is odd is rejected with an error (stated for the files whose consumed   *)
(* lines end in two numeric tokens, which nothing else can reject).        *)
(***************************************************************************)
C5_OddCountRejected ==
    \A n \in Sizes : ScalarFile(2 * n + 3, n) => result.status # "ok"

(***************************************************************************)
(* C5 as amended: a scalar file whose number of lines beyond the first two *)
(* is odd is not rejected for it: with L = 2N+3 lines whose lines 2, 4,    *)
(* ..., 2N and whose last line end in two numeric tokens, _read_scalJ      *)
(* returns a record of N = floor((L-2)/2) observable rows.                 *)
(***************************************************************************)
C5_OddCountTruncated ==
    \A n \in Sizes :
       ScalarFile(2 * n + 3, n) => (result.status = "ok" /\ Len(result.obs) = n)

\* a five-line file with one observable has been parsed
C5_Witness ==
    /\ ScalarFile(5, 1)
    /\ lines # ScenarioFile
    /\ result.status = "ok"
    /\ Len(result.obs) = 1

(***************************************************************************)
(* C6: in both parsers a consumed line with fewer tokens than required     *)
(* (fewer than 2 on a scalar observable line, the sign line or an          *)
(* equal-time header line; fewer than 4 on an equal-time data line) makes  *)
(* the parse fail: no record is returned.                                  *)
(***************************************************************************)
C6_ShortLineFatal ==
    /\ (result.op = "scalJ"
          /\ \E j \in result.consulted : Len(Line(lines, j)) < 2)
       => result.status # "ok"
    /\ (result.op = "eqJ" /\ result.N_orb >= 0
          /\ \E j \in result.consumed :
                IF j % (1 + result.N_orb * result.N_orb) = 0
                THEN Len(Line(lines, j)) < 2
                ELSE Len(Line(lines, j)) < 4)
       => result.status # "ok"

\* the lines of index >= 1 that have exactly 2 tokens
ShortLines == {i \in 1..(Len(lines) - 1) : Len(Line(lines, i)) = 2}

(***************************************************************************)
(* C7: the N_orb scan examines the lines 1, 2, ... in increasing order;    *)
(* the first line with exactly 2 tokens, at index i, fixes                 *)
(* N_orb = floor(sqrt(i - 1)); later 2-token lines do not change it, and   *)
(* line 0 is never examined by the scan.                                   *)
(***************************************************************************)
C7_OrbitalInference ==
    result.op = "eqJ" =>
       /\ 0 \notin result.scanned
       /\ \A i \in ShortLines :
             (\A j \in ShortLines : i <= j) =>
                /\ result.N_orb >= 0
                /\ result.N_orb * result.N_orb <= i - 1
                /\ i - 1 < (result.N_orb + 1) * (result.N_orb + 1)
                /\ result.scanned = 1..i

\* the first 2-token line is line 4 (3 is no square), another one follows,
\* and line 0 has 2 tokens as well
C7_Witness ==
    /\ result.op = "eqJ"
    /\ 4 \in ShortLines /\ 5 \in ShortLines
    /\ ShortLines \cap {1, 2, 3} = {}
    /\ Len(Line(lines, 0)) = 2
    /\ result.N_orb = 1

\* the lines after the last complete block
Trailing ==
    {j \in 0..(Len(lines) - 1) : j >= result.N_x * (1 + result.N_orb * result.N_orb)}

\* every line of the N_x blocks has the tokens its place asks for
BlocksWellFormed ==
    \A j \in 0..(Len(lines) - 1) :
       j \notin Trailing =>
          IF j % (1 + result.N_orb * result.N_orb) = 0
          THEN IsHeader(Line(lines, j))
          ELSE Len(Line(lines, j)) = 6 /\ EndsInFourNumbers(Line(lines, j))

\* N_x is the integer quotient, and the parse returns N_x blocks unless a
\* line of the blocks is malformed
QuotientBlocks ==
    /\ result.N_x * (1 + result.N_orb * result.N_orb) <= Len(lines)
    /\ Len(lines) < (result.N_x + 1) * (1 + result.N_orb * result.N_orb)
    /\ result.status = "ok" => (Len(result.x) = result.N_x /\ result.shape[1] = result.N_x)
    /\ BlocksWellFormed => result.status = "ok"

(***************************************************************************)
(* C8 as claimed: N_x = floor(total_lines / (1 + N_orb^2)); with a         *)
(* remainder the parse still succeeds, exactly N_x blocks are returned,    *)
(* and the lines at index >= N_x*(1+N_orb^2) are never read (stated for    *)
(* the files whose blocks are well formed).                                *)
(***************************************************************************)
C8_TrailingNeverRead ==
    (result.op = "eqJ" /\ result.N_orb >= 0 /\ result.x_name # "") =>
       /\ QuotientBlocks
       /\ BlocksWellFormed =>
             Trailing \cap (result.scanned \cup result.consumed) = {}

(***************************************************************************)
(* C8 as amended: N_x = floor(total_lines / (1 + N_orb^2)); with a         *)
(* remainder the parse still succeeds, exactly N_x blocks are returned,    *)
(* and the lines at index >= N_x*(1+N_orb^2) are never read by the block   *)
(* loop and never cause an error; the N_orb scan examines the token count  *)
(* of one only if no earlier line of index >= 1 has exactly 2 tokens.      *)
(***************************************************************************)
C8_RemainderDiscarded ==
    (result.op = "eqJ" /\ result.N_orb >= 0 /\ result.x_name # "") =>
       /\ QuotientBlocks
       /\ Trailing \cap result.consumed = {}
       /\ \A j \in Trailing \cap result.scanned : \A i \in ShortLines : j <= i

\* two blocks returned from a file with a remainder
C8_Witness ==
    /\ result.op = "eqJ"
    /\ result.status = "ok"
    /\ result.N_x >= 2 /\ result.N_orb >= 1
    /\ BlocksWellFormed
    /\ Trailing # {}

(***************************************************************************)
(* C9: for a scalar file of 2N+3 lines _read_scalJ returns N rows taken    *)
(* from the even-indexed lines 2..2N and the sign from the last line; the  *)
(* odd-indexed lines are never consulted, so that replacing one changes    *)
(* nothing.  The 5-line scenario file yields obs = [[1.2345, 0.001]] and   *)
(* sign = [0.98, 0.0001].                                                  *)
(***************************************************************************)
C9_OddLengthScalar ==
    /\ \A n \in Sizes :
          ScalarFile(2 * n + 3, n) =>
             /\ ScalarRecord(n)
             /\ result.consulted = {2 * i + 2 : i \in 0..n}
    /\ (result.op = "scalJ" /\ Len(lines) % 2 = 1) =>
          /\ \A j \in result.consulted : j % 2 = 0
          /\ \A j \in 0..(Len(lines) - 1) : \A l \in {<< >>, <<"0.98", "0.0001">>} :
                j % 2 = 1 => _read_scalJ(Replaced(lines, j + 1, l)) = result
    /\ (result.op = "scalJ" /\ lines = ScenarioFile) =>
          /\ result.status = "ok"
          /\ result.obs = << <<12345, 10>> >>
          /\ result.sign = <<9800, 1>>

\* the scenario file has been parsed
C9_Witness ==
    /\ result.op = "scalJ"
    /\ lines = ScenarioFile
    /\ result.status = "ok"

(***************************************************************************)
(* C10: a scalar file with fewer than 2 lines is rejected with an error:   *)
(* _read_scalJ returns no record for a 0-line or 1-line file (the one line *)
(* ending in two numeric tokens, so that nothing else can reject it).      *)
(***************************************************************************)
C10_ShortFileRejected ==
    (result.op = "scalJ" /\ (Len(lines) = 0 \/ ScalarFile(1, 0)))
       => result.status # "ok"

(***************************************************************************)
(* get_obs: the analysed observables of a simulation directory.  A         *)
(* directory is a record: whether it exists, and the content of each of    *)
(* its files by name.                                                      *)
(***************************************************************************)
\* most parse calls of one behaviour
MaxCalls == 3

\* what a call leaves: the value it returned, or the exception it raised
Returned(v) == [status |-> "ok", value |-> v]

Raised(exc) == [status |-> exc, value |-> << >>]

\* {'sign': sign, 'obs': obs}
ScalDict(r) == [sign |-> r.sign, obs |-> r.obs]

\* {x_name: x, 'dat': dat}
EqDict(r) == (r.x_name :> r.x) @@ ("dat" :> r.dat)

\* open(name) in _read_scalJ, then the parse of the lines read
OpenScalJ(dir, name) ==
    IF ~dir.exists \/ name \notin DOMAIN dir.files
    THEN Raised("FileNotFoundError")
    ELSE LET r == _read_scalJ(dir.files[name])
         IN  IF r.status = "ok" THEN Returned(ScalDict(r)) ELSE Raised(r.status)

\* open(name) in _read_eqJ, then the parse of the lines read
OpenEqJ(dir, name) ==
    IF ~dir.exists \/ name \notin DOMAIN dir.files
    THEN Raised("FileNotFoundError")
    ELSE LET r == _read_eqJ(name, dir.files[name])
         IN  IF r.status = "ok" THEN Returned(EqDict(r)) ELSE Raised(r.status)

\* a slip: the raw bins file taken for the analysed one
IsScalJRaw(name) == EndsWith(name, "_scalJ") \/ EndsWith(name, "_scal")

\* name.endswith('_scalJ')
IsScalJ(name) == EndsWith(name, "_scalJ")

\* name.endswith('_eqJK') or name.endswith('_eqJR')
IsEqJ(name) == EndsWith(name, "_eqJK") \/ EndsWith(name, "_eqJR")

\* a slip: the dictionary of the previous call reused
StaleObs ==
    IF result.op = "get_obs" /\ result.status = "ok" THEN result.value
    ELSE << >>

\* obs = {}
FreshObs == << >>

\* obs[name] = <the parse of the file>; an exception ends the call
Store(acc, name, out) ==
    IF out.status = "ok" THEN Returned((name :> out.value) @@ acc.value)
    ELSE Raised(out.status)

\* for name in names: the two if statements of the loop body, in turn
RECURSIVE NamesLoop(_, _, _, _)
NamesLoop(dir, names, i, acc) ==
    IF acc.status # "ok" \/ i > Len(names) THEN acc
    ELSE LET name == names[i]
             a1   == IF IsScalJ(name)
                     THEN Store(acc, name, OpenScalJ(dir, name)) ELSE acc
             a2   == IF a1.status = "ok" /\ IsEqJ(name)
                     THEN Store(a1, name, OpenEqJ(dir, name)) ELSE a1
         IN  NamesLoop(dir, names, i + 1, a2)

\* the orders in which os.listdir may return the names of a directory
RECURSIVE Orders(_)
Orders(S) ==
    IF S = {} THEN { << >> }
    ELSE UNION { { <<n>> \o rest : rest \in Orders(S \ {n}) } : n \in S }

\* names is a request: given is FALSE for names=None; listing is what
\* os.listdir(sim_dir) returns when it is called
get_obs(dir, names, listing) ==
    IF ~names.given /\ ~dir.exists THEN Raised("FileNotFoundError")
    ELSE NamesLoop(dir, IF names.given THEN names.list ELSE listing, 1,
                   Returned(FreshObs))

\* well-formed and malformed files of the analysed observables
ScalarGood == ScenarioFile

ScalarBad == << <<"header">>, <<"header">>, <<"header">> >>

EqGoodK == BlockFile(2, 1, 2)

EqGoodR == BlockFile(2, 2, 2)

EqBad == << >>

\* the directories: the raw bins Ener_scal, its analysed file Ener_scalJ,
\* and the analysed correlation files that are present
ObsDirs ==
    {NoDir} \cup
    { [exists |-> TRUE,
       files  |-> [n \in {"Ener_scal", "Ener_scalJ"} \cup DOMAIN k \cup DOMAIN r
                     |-> IF n = "Ener_scal" THEN ScalarGood
                         ELSE IF n = "Ener_scalJ" THEN s
                         ELSE IF n = "Green_eqJK" THEN k[n] ELSE r[n]]] :
        s \in {ScalarGood, ScalarBad},
        k \in {<< >>} \cup {("Green_eqJK" :> c) : c \in {EqGoodK, EqBad}},
        r \in {<< >>, ("Green_eqJR" :> EqGoodR)} }

\* the names argument of get_obs: given is FALSE for names=None
Request(given, list) == [given |-> given, list |-> list]

ObsRequests ==
    { Request(FALSE, << >>), Request(TRUE, <<"Ener_scalJ">>),
      Request(TRUE, <<"Green_eqJK", "Ener_scalJ">>),
      Request(TRUE, <<"Ener_scal", "Green_eqJR">>) }

\* the files the parsers are called on directly
DirectScal == {"Ener_scalJ"}

DirectEq == {"Green_eqJK", "Ener_scal"}

\* a parse call and what it left, appended to the calls made so far
ObsCall(fn, names, out) ==
    /\ Len(calls) < MaxCalls
    /\ result' = [op |-> fn, names |-> names, status |-> out.status,
                  value |-> out.value]
    /\ calls' = Append(calls, result')
    /\ UNCHANGED <<lines, fs, alf, cwd, cmds, pc, args>>

InitObs ==
    /\ lines = << >>
    /\ result = NoResult
    /\ fs \in ObsDirs
    /\ alf = NoDir
    /\ cwd = Home
    /\ cmds = << >>
    /\ pc = "idle"
    /\ args = NoArgs
    /\ calls = << >>

\* get_obs(sim_dir, names)
GetObs ==
    \E names \in ObsRequests :
      \E listing \in Orders(DOMAIN fs.files) :
        ObsCall("get_obs", names, get_obs(fs, names, listing))

\* _read_scalJ(os.path.join(sim_dir, name))
ReadScalJFile ==
    \E name \in DirectScal :
      ObsCall("_read_scalJ", Request(TRUE, <<name>>), OpenScalJ(fs, name))

\* _read_eqJ(os.path.join(sim_dir, name))
ReadEqJFile ==
    \E name \in DirectEq :
      ObsCall("_read_eqJ", Request(TRUE, <<name>>), OpenEqJ(fs, name))

NextObs == GetObs \/ ReadScalJFile \/ ReadEqJFile

SpecObs == InitObs /\ [][NextObs]_vars

\* two calls of the same function with the same arguments
SameCall(c1, c2) == c1.op = c2.op /\ c1.names = c2.names

\* both raised, or both returned and returned equal values
SameOutcome(c1, c2) ==
    /\ (c1.status = "ok") <=> (c2.status = "ok")
    /\ c1.value = c2.value

\* C11: any two calls of the same parse function on the same names of the
\* unchanged directory, whatever calls lie between them, both raise or
\* return equal records, and no parse call changes the directory, the
\* source tree or the working directory.
C11_Deterministic ==
    /\ [](\A i, j \in 1..Len(calls) :
            SameCall(calls[i], calls[j]) => SameOutcome(calls[i], calls[j]))
    /\ [][fs' = fs /\ alf' = alf /\ cwd' = cwd]_vars

\* get_obs returned a non-empty dictionary, another call followed, and the
\* first call was repeated
C11_Witness ==
    /\ Len(calls) = 3
    /\ calls[1].op = "get_obs" /\ calls[1].status = "ok"
    /\ DOMAIN calls[1].value # {}
    /\ ~SameCall(calls[1], calls[2])
    /\ SameCall(calls[1], calls[3])

\* the coordinate key that goes with the last letter of a file name
KeyOfSuffix(name) == IF EndsWith(name, "K") THEN "k" ELSE "r"

\* C12: a record returned by _read_eqJ has exactly the keys 'dat' and 'k'
\* when the file name ends in K, 'dat' and 'r' when it ends in R, and every
\* name get_obs hands to _read_eqJ ends in one of the two.
C12_CoordinateKey ==
    \A i \in 1..Len(calls) :
      LET c == calls[i] IN
      /\ c.op = "_read_eqJ" /\ c.status = "ok" =>
           /\ EndsWith(c.names.list[1], "K") \/ EndsWith(c.names.list[1], "R")
           /\ DOMAIN c.value = {"dat", KeyOfSuffix(c.names.list[1])}
      /\ c.op = "get_obs" /\ c.status = "ok" =>
           \A name \in DOMAIN c.value :
             EndsWith(name, "_eqJK") \/ EndsWith(name, "_eqJR") =>
               /\ DOMAIN c.value[name] = {"dat", KeyOfSuffix(name)}
               /\ XName(name) # ""

\* get_obs returned a momentum-space and a real-space record
C12_Witness ==
    /\ result.op = "get_obs" /\ result.status = "ok"
    /\ {"Green_eqJK", "Green_eqJR"} \subseteq DOMAIN result.value
    /\ "k" \in DOMAIN result.value["Green_eqJK"]
    /\ "r" \in DOMAIN result.value["Green_eqJR"]

\* the names a get_obs call goes through
NamesOf(c) ==
    IF c.names.given THEN {c.names.list[j] : j \in 1..Len(c.names.list)}
    ELSE DOMAIN fs.files

\* those of them that name an analysed observable
Wanted(c) ==
    { n \in NamesOf(c) :
        EndsWith(n, "_scalJ") \/ EndsWith(n, "_eqJK") \/ EndsWith(n, "_eqJR") }

\* the parse of the file of an analysed observable
ParseOf(n) ==
    IF EndsWith(n, "_scalJ") THEN OpenScalJ(fs, n) ELSE OpenEqJ(fs, n)

\* C13: get_obs returns exactly when every file it selects (a name of
\* 'names', or of the directory listing when names is None, that ends in
\* _scalJ, _eqJK or _eqJR) parses; it then returns the dictionary of those
\* names, each with the record of its file; when a selected file fails to
\* parse, or the directory to list is missing, it raises and returns nothing.
C13_GetObs ==
    \A i \in 1..Len(calls) :
      LET c == calls[i] IN
      c.op = "get_obs" =>
        IF ~c.names.given /\ ~fs.exists THEN c.status # "ok"
        ELSE IF \A n \in Wanted(c) : ParseOf(n).status = "ok"
        THEN /\ c.status = "ok"
             /\ DOMAIN c.value = Wanted(c)
             /\ \A n \in Wanted(c) : c.value[n] = ParseOf(n).value
        ELSE c.status # "ok" /\ c.value = << >>

\* get_obs listed a directory with the raw bins file next to the analysed
\* files, and returned the analysed ones only
C13_Witness ==
    /\ result.op = "get_obs" /\ result.status = "ok" /\ ~result.names.given
    /\ "Ener_scal" \in DOMAIN fs.files
    /\ DOMAIN result.value = {"Ener_scalJ", "Green_eqJK"}

(***************************************************************************)
(* Strings: TLC takes a string for the sequence of its characters, so      *)
(* Len, \o, SubSeq, Head and Tail act on names as Python's operators do.   *)
(***************************************************************************)
LowerCase == "abcdefghijklmnopqrstuvwxyz"

UpperCase == "ABCDEFGHIJKLMNOPQRSTUVWXYZ"

\* the letters of alphabet `from`, each with the letter at its place in
\* alphabet `to`
CharMap(from, to) ==
    [c \in {SubSeq(from, i, i) : i \in 1..Len(from)} |->
        LET i == CHOOSE i \in 1..Len(from) : SubSeq(from, i, i) = c
        IN  SubSeq(to, i, i)]

ToUpper == CharMap(LowerCase, UpperCase)

ToLower == CharMap(UpperCase, LowerCase)

\* the character c under the map, c itself when it is no letter of it
MapChar(c, map) == IF c \in DOMAIN map THEN map[c] ELSE c

\* a slip: the string compared as it was written
NoUpper(s) == s

\* str.upper()
RECURSIVE Upper(_)
Upper(s) ==
    IF s = "" THEN ""
    ELSE MapChar(Head(s), ToUpper) \o Upper(Tail(s))

\* str.lower()
RECURSIVE Lower(_)
Lower(s) ==
    IF s = "" THEN ""
    ELSE MapChar(Head(s), ToLower) \o Lower(Tail(s))

\* str.startswith(prefix)
StartsWith(s, prefix) ==
    Len(s) >= Len(prefix) /\ SubSeq(s, 1, Len(prefix)) = prefix

\* str.strip() of blanks
RECURSIVE Strip(_)
Strip(s) ==
    IF s = "" THEN ""
    ELSE IF Head(s) = " " THEN Strip(Tail(s))
    ELSE IF SubSeq(s, Len(s), Len(s)) = " " THEN Strip(SubSeq(s, 1, Len(s) - 1))
    ELSE s

\* the elements of a list
Range(seq) == {seq[j] : j \in 1..Len(seq)}

\* the lists of a list, one after the other
RECURSIVE Flatten(_)
Flatten(seqs) ==
    IF seqs = << >> THEN << >> ELSE Head(seqs) \o Flatten(Tail(seqs))

(***************************************************************************)
(* default_variables.py: the namelists of ALF with their default values.   *)
(* A namelist is the list of its parameters in insertion order; a          *)
(* parameter has a name, a value (written as str(value) writes it) and a   *)
(* comment.                                                                *)
(***************************************************************************)
Par(name, value, comment) ==
    [name |-> name, value |-> value, comment |-> comment]

Namelist(name, pars) == [name |-> name, pars |-> pars]

\* PARAMS_GENERIC["VAR_QMC"] (default_variables.py)
VAR_QMC ==
    << Par("Nwrap", "10", "Stabilization. Green functions will be computed from scratch after each time interval Nwrap*Dtau."),
       Par("Nsweep", "100", "Number of sweeps per bin."),
       Par("Nbin", "5", "Number of bins."),
       Par("Ltau", "1", "1 to calculate time-displaced Green functions; 0 otherwise."),
       Par("LOBS_ST", "0", "Start measurements at time slice LOBS_ST"),
       Par("LOBS_EN", "0", "End measurements at time slice LOBS_EN"),
       Par("CPU_MAX", "0.0", "Code stops after CPU_MAX hours, if 0 or not specified, the code stops after Nbin bins"),
       Par("Propose_S0", "False", "Proposes single spin flip moves with probability exp(-S0)."),
       Par("Global_moves", "False", "Allows for global moves in space and time."),
       Par("N_global", "1", "Number of global moves per sweep."),
       Par("Global_tau_moves", "False", "Allows for global moves on a single time slice."),
       Par("N_global_tau", "1", "Number of global moves that will be carried out on a single time slice."),
       Par("Nt_sequential_start", "0", ""),
       Par("Nt_sequential_end", "-1", ""),
       Par("Langevin", "False", "Langevin update"),
       Par("Delta_t_Langevin_HMC", "0.01", "Time step for Langevin or HMC"),
       Par("Max_Force", "1.5", "Max Force for Langevin"),
       Par("HMC", "False", "HMC update"),
       Par("Leapfrog_steps", "0", "Number of leapfrog steps") >>

\* PARAMS_GENERIC["VAR_errors"] (default_variables.py)
VAR_errors ==
    << Par("N_skip", "1", "Number of bins to be skipped."),
       Par("N_rebin", "1", "Rebinning: Number of bins to combine into one."),
       Par("N_Cov", "0", "If set to 1, covariance computed for time-displaced correlation functions."),
       Par("N_Back", "1", "If set to 1, substract background in correlation functions."),
       Par("N_auto", "0", "If > 0, calculate autocorrelation.") >>

\* PARAMS_GENERIC["VAR_TEMP"] (default_variables.py)
VAR_TEMP ==
    << Par("N_exchange_steps", "6", "Number of exchange moves."),
       Par("N_Tempering_frequency", "10", "The frequency, in units of sweeps, at which the exchange moves are carried out."),
       Par("mpi_per_parameter_set", "2", "Number of mpi-processes per parameter set."),
       Par("Tempering_calc_det", "True", "Specifies whether the fermion weight has to be taken into          account while tempering. Can be set to .F. if the parameters that          get varied only enter the Ising action S_0") >>

\* PARAMS_GENERIC["VAR_Max_Stoch"] (default_variables.py)
VAR_Max_Stoch ==
    << Par("Ngamma", "400", "Number of Dirac delta-functions for parametrization."),
       Par("Om_st", "-10.0", "Frequency range lower bound."),
       Par("Om_en", "10.0", "Frequency range upper bound."),
       Par("Ndis", "2000", "Number of boxes for histogram."),
       Par("NBins", "250", "Number of bins for Monte Carlo."),
       Par("NSweeps", "70", "Number of sweeps per bin."),
       Par("Nwarm", "20", "The Nwarm first bins will be ommitted."),
       Par("N_alpha", "14", "Number of temperatures."),
       Par("alpha_st", "1.0", ""),
       Par("R", "1.2", ""),
       Par("Checkpoint", "False", ""),
       Par("Tolerance", "0.1", "") >>

\* PARAMS_MODEL["VAR_Lattice"] (default_variables.py)
VAR_Lattice ==
    << Par("L1", "6", ""),
       Par("L2", "6", ""),
       Par("Lattice_type", "Square", ""),
       Par("Model", "Hubbard", "") >>

\* PARAMS_MODEL["VAR_Model_Generic"] (default_variables.py)
VAR_Model_Generic ==
    << Par("Checkerboard", "True", ""),
       Par("Symm", "True", ""),
       Par("N_SUN", "2", ""),
       Par("N_FL", "1", ""),
       Par("Phi_X", "0.0", ""),
       Par("Phi_Y", "0.0", ""),
       Par("Bulk", "True", ""),
       Par("N_Phi", "0", ""),
       Par("Dtau", "0.1", ""),
       Par("Beta", "5.0", ""),
       Par("Projector", "False", ""),
       Par("Theta", "10.0", "") >>

\* PARAMS_MODEL["VAR_Hubbard"] (default_variables.py)
VAR_Hubbard ==
    << Par("Mz", "True", ""),
       Par("ham_T", "1.0", ""),
       Par("ham_chem", "0.0", ""),
       Par("ham_U", "4.0", ""),
       Par("ham_T2", "1.0", ""),
       Par("ham_U2", "4.0", ""),
       Par("ham_Tperp", "1.0", ""),
       Par("Continuous", "False", "Continuous HS transformation") >>

\* PARAMS_MODEL["VAR_tV"] (default_variables.py)
VAR_tV ==
    << Par("ham_T", "1.0", ""),
       Par("ham_chem", "0.0", ""),
       Par("ham_V", "0.5", ""),
       Par("ham_T2", "1.0", ""),
       Par("ham_V2", "0.5", ""),
       Par("ham_Tperp", "1.0", ""),
       Par("ham_Vperp", "0.5", "") >>

\* PARAMS_MODEL["VAR_Hubbard_Plain_Vanilla"] (default_variables.py)
VAR_Hubbard_Plain_Vanilla ==
    << Par("ham_T", "1.0", ""),
       Par("ham_chem", "0.0", ""),
       Par("ham_U", "4.0", ""),
       Par("Dtau", "0.1", ""),
       Par("Beta", "5.0", ""),
       Par("Projector", "False", ""),
       Par("Theta", "10.0", ""),
       Par("Symm", "True", "") >>

\* PARAMS_MODEL["VAR_Kondo"] (default_variables.py)
VAR_Kondo ==
    << Par("ham_T", "1.0", ""),
       Par("ham_chem", "0.0", ""),
       Par("ham_Uc", "0.0", ""),
       Par("ham_Uf", "2.0", ""),
       Par("ham_JK", "2.0", "") >>

\* PARAMS_MODEL["VAR_LRC"] (default_variables.py)
VAR_LRC ==
    << Par("ham_T", "1.0", ""),
       Par("ham_T2", "1.0", ""),
       Par("ham_Tperp", "1.0", ""),
       Par("ham_chem", "0.0", ""),
       Par("ham_U", "4.0", ""),
       Par("ham_alpha", "0.1", ""),
       Par("Percent_change", "0.1", "") >>

\* PARAMS_MODEL["VAR_Z2_Matter"] (default_variables.py)
VAR_Z2_Matter ==
    << Par("ham_T", "1.0", "Hopping for fermions"),
       Par("ham_TZ2", "1.0", "Hopping for orthogonal fermions"),
       Par("ham_chem", "0.0", "Chemical potential for fermions"),
       Par("ham_U", "0.0", "Hubbard for fermions"),
       Par("Ham_J", "1.0", "Hopping Z2 matter fields"),
       Par("Ham_K", "1.0", "Plaquette term for gauge fields"),
       Par("Ham_h", "1.0", "sigma^x-term for matter"),
       Par("Ham_g", "1.0", "tau^x-term for gauge"),
       Par("Dtau", "0.1", ""),
       Par("Beta", "10.0", ""),
       Par("N_SUN", "2", ""),
       Par("Projector", "False", ""),
       Par("Theta", "10.0", "") >>

\* PARAMS_GENERIC, in insertion order
PARAMS_GENERIC ==
    << Namelist("VAR_QMC", VAR_QMC), Namelist("VAR_errors", VAR_errors),
       Namelist("VAR_TEMP", VAR_TEMP), Namelist("VAR_Max_Stoch", VAR_Max_Stoch) >>

\* PARAMS_MODEL[name]
PARAMS_MODEL(name) ==
    CASE name = "VAR_Lattice" -> VAR_Lattice
      [] name = "VAR_Model_Generic" -> VAR_Model_Generic
      [] name = "VAR_Hubbard" -> VAR_Hubbard
      [] name = "VAR_tV" -> VAR_tV
      [] name = "VAR_Hubbard_Plain_Vanilla" -> VAR_Hubbard_Plain_Vanilla
      [] name = "VAR_Kondo" -> VAR_Kondo
      [] name = "VAR_LRC" -> VAR_LRC
      [] name = "VAR_Z2_Matter" -> VAR_Z2_Matter

\* the keys of IN_HAM
HamNames ==
    {"Hubbard", "Hubbard_Plain_Vanilla", "Kondo", "tV", "LRC", "Z2_Matter"}

\* IN_HAM[ham_name]
IN_HAM(ham_name) ==
    CASE ham_name = "Hubbard" ->
           <<"VAR_Lattice", "VAR_Model_Generic", "VAR_Hubbard">>
      [] ham_name = "Hubbard_Plain_Vanilla" ->
           <<"VAR_Lattice", "VAR_Hubbard_Plain_Vanilla">>
      [] ham_name = "Kondo" ->
           <<"VAR_Lattice", "VAR_Model_Generic", "VAR_Kondo">>
      [] ham_name = "tV" -> <<"VAR_Lattice", "VAR_Model_Generic", "VAR_tV">>
      [] ham_name = "LRC" -> <<"VAR_Lattice", "VAR_Model_Generic", "VAR_LRC">>
      [] ham_name = "Z2_Matter" -> <<"VAR_Lattice", "VAR_Z2_Matter">>

\* the namelists of the hamiltonian, then the generic ones
default_params(ham_name) ==
    [i \in 1..Len(IN_HAM(ham_name)) |->
        Namelist(IN_HAM(ham_name)[i], PARAMS_MODEL(IN_HAM(ham_name)[i]))]
    \o PARAMS_GENERIC

\* the names of the parameters of a namelist
ParNames(pars) == [j \in 1..Len(pars) |-> pars[j].name]

\* the parameter names of the hamiltonian, in upper case
params_list(ham_name, include_generic) ==
    LET model   == Flatten([i \in 1..Len(IN_HAM(ham_name)) |->
                              ParNames(PARAMS_MODEL(IN_HAM(ham_name)[i]))])
        generic == IF include_generic
                   THEN Flatten([i \in 1..Len(PARAMS_GENERIC) |->
                                   ParNames(PARAMS_GENERIC[i].pars)])
                   ELSE << >>
        p_list  == model \o generic
    IN  [i \in 1..Len(p_list) |-> Upper(p_list[i])]

\* the lists params_list returns, computed once
p_lists == [h \in HamNames, g \in BOOLEAN |-> params_list(h, g)]

(***************************************************************************)
(* directory_name, set_param and the construction of a Simulation.         *)
(* sim_dict is a record: isList tells a list of dictionaries from a single *)
(* dictionary, dicts holds the dictionaries (one when isList is FALSE); a  *)
(* dictionary is the list of its items in insertion order.                 *)
(***************************************************************************)
\* Python's None, among string values
None == "None"

Item(name, value) == [name |-> name, value |-> value]

\* a slip: only the prefix written in lower case is recognised
HasHamPrefixExact(name) == StartsWith(name, "ham_")

\* name.upper().startswith('HAM_')
HasHamPrefix(name) == StartsWith(Upper(name), "HAM_")

\* the body of the loop of directory_name: dirname after the item
DirComponent(p_list, ham_name, dirname, name, value) ==
    IF Upper(name) \in Range(p_list)
    THEN IF Upper(name) = "MODEL"
         THEN IF value # ham_name THEN dirname \o value \o "_" ELSE dirname
         ELSE IF Upper(name) = "LATTICE_TYPE" THEN dirname \o value \o "_"
         ELSE LET name_temp == IF HasHamPrefix(name)
                               THEN SubSeq(name, 5, Len(name)) ELSE name
              IN  dirname \o name_temp \o "=" \o value \o "_"
    ELSE dirname

\* for name, value in sim_dict.items()
RECURSIVE DirLoop(_, _, _, _, _)
DirLoop(p_list, ham_name, d, i, dirname) ==
    IF i > Len(d) THEN dirname
    ELSE DirLoop(p_list, ham_name, d, i + 1,
                 DirComponent(p_list, ham_name, dirname, d[i].name, d[i].value))

directory_name(ham_name, sim_dict) ==
    IF ham_name \notin HamNames THEN Raised("KeyError")
    ELSE IF sim_dict.isList /\ sim_dict.dicts = << >> THEN Raised("IndexError")
    ELSE LET p_list  == p_lists[ham_name, FALSE]
             start   == IF sim_dict.isList THEN "temper_" \o ham_name \o "_"
                        ELSE ham_name \o "_"
             dirname == DirLoop(p_list, ham_name, sim_dict.dicts[1], 1, start)
         IN  Returned(SubSeq(dirname, 1, Len(dirname) - 1))

\* a slip: the names compared as they were written
MatchesExactly(var2, var) == var2 = var

\* var2.lower() == var.lower()
Matches(var2, var) == Lower(var2) = Lower(var)

\* the value of the first parameter called var, in namelist order, replaced
_update_var(params, var, value) ==
    LET hits == UNION { { <<n, v>> : v \in { v \in 1..Len(params[n].pars) :
                                        Matches(params[n].pars[v].name, var) } } :
                        n \in 1..Len(params) }
    IN  IF hits = {}
        THEN Raised("\"" \o var \o "\" does not correspond to a parameter")
        ELSE LET first == CHOOSE h \in hits :
                            \A g \in hits :
                              h[1] < g[1] \/ (h[1] = g[1] /\ h[2] <= g[2])
             IN  Returned([params EXCEPT
                             ![first[1]].pars[first[2]].value = value])

\* for name, value in sim_dict.items(): params = _update_var(...)
RECURSIVE UpdateLoop(_, _, _)
UpdateLoop(acc, d, i) ==
    IF acc.status # "ok" \/ i > Len(d) THEN acc
    ELSE UpdateLoop(_update_var(acc.value, d[i].name, d[i].value), d, i + 1)

\* sim_dict is a single dictionary here
set_param(ham_name, d) ==
    IF ham_name \notin HamNames THEN Raised("KeyError")
    ELSE UpdateLoop(
           Returned(default_params(ham_name)
                    \o << Namelist("VAR_ham_name",
                            << Par("ham_name", ham_name, "Name of Hamiltonian") >>) >>),
           d, 1)

\* the keyword arguments Simulation accepts
KnownKwargs ==
    { "sim_root", "sim_dir", "branch", "mpi", "n_mpi", "n_omp", "mpiexec",
      "stab", "machine", "devel", "hdf5" }

Machines == {"GNU", "INTEL", "PGI", "JUWELS", "SUPERMUC-NG"}

Stabs == {"STAB1", "STAB2", "STAB3", "LOG", ""}

\* kwargs.pop(key, default): names are the keywords passed
Pop(kwargs, key, default) ==
    IF key \in kwargs.names THEN kwargs.values[key] ELSE default

\* os.path.join(a, b)
JoinPath(a, b) == IF StartsWith(b, "/") THEN b ELSE a \o "/" \o b

\* os.path.abspath(path)
AbsPath(path) == IF StartsWith(path, "/") THEN path ELSE JoinPath(cwd, path)

\* a slip: only the first dictionary of a list is checked
FirstDict(sim_dict) ==
    IF sim_dict.dicts = << >> THEN << >> ELSE << sim_dict.dicts[1] >>

\* the dictionaries whose keys the constructor checks
CheckedDicts(sim_dict) ==
    IF sim_dict.isList THEN sim_dict.dicts ELSE << sim_dict.dicts[1] >>

\* a slip: MPI written whatever self.mpi is
ConfigMpiAlways(machine, stab, mpi, tempering, devel, hdf5) ==
    Strip(machine \o " " \o stab)
    \o " MPI"
    \o (IF tempering THEN " TEMPERING" ELSE "")
    \o (IF devel THEN " DEVEL" ELSE "")
    \o (IF hdf5 THEN " HDF5" ELSE "")
    \o " NO-INTERACTIVE"

\* self.config
Config(machine, stab, mpi, tempering, devel, hdf5) ==
    Strip(machine \o " " \o stab)
    \o (IF mpi THEN " MPI" ELSE " NOMPI")
    \o (IF tempering THEN " TEMPERING" ELSE "")
    \o (IF devel THEN " DEVEL" ELSE "")
    \o (IF hdf5 THEN " HDF5" ELSE "")
    \o " NO-INTERACTIVE"

\* Simulation.__init__
Simulation(ham_name, sim_dict, alf_dir, kwargs) ==
    LET dn        == directory_name(ham_name, sim_dict)
        stab      == Upper(Pop(kwargs, "stab", ""))
        machine   == Upper(Pop(kwargs, "machine", "GNU"))
        tempering == sim_dict.isList
        mpi       == IF tempering THEN TRUE ELSE Pop(kwargs, "mpi", FALSE)
        n_mpi     == Pop(kwargs, "n_mpi", None)
        devel     == Pop(kwargs, "devel", FALSE)
        hdf5      == Pop(kwargs, "hdf5", FALSE)
        p_list    == p_lists[ham_name, TRUE]
        NotListed(par_name) == Upper(par_name) \notin Range(p_list)
        unknown   == Flatten([i \in 1..Len(CheckedDicts(sim_dict)) |->
                       SelectSeq(ParNames(CheckedDicts(sim_dict)[i]), NotListed)])
    IN  IF dn.status # "ok" THEN Raised(dn.status)
        ELSE IF kwargs.names \ KnownKwargs # {}
        THEN Raised("Unused keyword arguments")
        ELSE IF unknown # << >>
        THEN Raised("Parameter " \o unknown[1]
                    \o " not listet in default_variables")
        ELSE IF mpi /\ n_mpi = None
        THEN Raised("You have to specify n_mpi if you use MPI.")
        ELSE IF machine \notin Machines
        THEN Raised("Illegal value machine=" \o machine)
        ELSE IF stab \notin Stabs THEN Raised("Illegal value stab=" \o stab)
        ELSE Returned(
               [ham_name  |-> ham_name,
                sim_dict  |-> sim_dict,
                alf_dir   |-> AbsPath(alf_dir),
                sim_dir   |-> AbsPath(JoinPath(Pop(kwargs, "sim_root", "ALF_data"),
                                               Pop(kwargs, "sim_dir", dn.value))),
                branch    |-> Pop(kwargs, "branch", None),
                mpi       |-> mpi,
                n_mpi     |-> n_mpi,
                n_omp     |-> Pop(kwargs, "n_omp", "1"),
                mpiexec   |-> Pop(kwargs, "mpiexec", "mpiexec"),
                devel     |-> devel,
                hdf5      |-> hdf5,
                tempering |-> tempering,
                config    |-> Config(machine, stab, mpi, tempering, devel, hdf5)])

(***************************************************************************)
(* The arguments Simulation, set_param and directory_name are called with. *)
(***************************************************************************)
\* most items of a dictionary
MaxKeys == 2
\* most dictionaries of a list
MaxDicts == 2

\* items naming lattice, model-specific and generic parameters in several
\* spellings, the parameter ham_name of VAR_ham_name, and no parameter
ItemSet ==
    { Item("L1", "4"), Item("l1", "8"), Item("Lattice_type", "Square"),
      Item("Model", "Hubbard"), Item("ham_U", "2.0"), Item("Ham_J", "1.5"),
      Item("Nsweep", "20"), Item("foo", "1"), Item("ham_name", "Kondo") }

\* the items of the dictionaries of a list
ListItemSet ==
    { Item("L1", "4"), Item("Ham_J", "1.5"), Item("Nsweep", "20"),
      Item("foo", "1") }

\* the dictionaries of at most n of the items: the keys of a dictionary
\* differ
Dicts(items, n) ==
    UNION { { d \in [1..k -> items] :
                \A i, j \in 1..k : i # j => d[i].name # d[j].name } :
            k \in 0..n }

SimDict(isList, dicts) == [isList |-> isList, dicts |-> dicts]

SimDicts ==
    { SimDict(FALSE, <<d>>) : d \in Dicts(ItemSet, MaxKeys) }
    \cup { SimDict(TRUE, ds) :
             ds \in UNION { [1..k -> Dicts(ListItemSet, 1)] : k \in 0..MaxDicts } }

SimHams == {"Hubbard", "Z2_Matter"}

\* the keyword arguments: the keywords passed, and the value of each
Kwargs(names, machine, stab) ==
    [names  |-> names,
     values |-> [sim_root |-> "ALF_data", sim_dir |-> "run_1",
                 branch |-> "master", mpi |-> TRUE, n_mpi |-> "4",
                 n_omp |-> "2", mpiexec |-> "srun", stab |-> stab,
                 machine |-> machine, devel |-> TRUE, hdf5 |-> TRUE,
                 target |-> "Kondo"]]

MachineInputs ==
    { "GNU", "gnu", "Intel", "PGI", "juwels", "supermuc-ng", "DEVELOPMENT",
      "GNU " }

StabInputs == { "", "stab1", "STAB2", "Stab3", "Log", "STAB4" }

KwFew ==
    { Kwargs(names, "GNU", "") :
        names \in { {}, {"mpi"},
                    {"mpi", "n_mpi", "hdf5", "devel", "branch", "sim_dir"} } }

KwMany ==
    { Kwargs(names, IF "machine" \in names THEN m ELSE "GNU",
             IF "stab" \in names THEN s ELSE "") :
        names \in SUBSET {"machine", "stab", "mpi", "n_mpi", "target"},
        m \in MachineInputs, s \in StabInputs }

SimCall(ham_name, sim_dict, kwargs) ==
    [fn |-> "Simulation", ham_name |-> ham_name, sim_dict |-> sim_dict,
     alf_dir |-> "ALF", kwargs |-> kwargs]

\* every sim_dict with the default options, and every choice of options
\* with one dictionary and with one list
SimInputs ==
    { SimCall(h, sd, Kwargs({}, "GNU", "")) : h \in SimHams, sd \in SimDicts }
    \cup { SimCall("Hubbard", sd, kw) :
             sd \in { SimDict(FALSE, << <<Item("L1", "4")>> >>),
                      SimDict(TRUE, << <<Item("Nsweep", "20")>>,
                                       <<Item("L1", "4")>> >>) },
             kw \in KwFew \cup KwMany }

InitSim ==
    /\ lines = << >>
    /\ result = NoResult
    /\ fs = NoDir
    /\ alf = NoDir
    /\ cwd = Home
    /\ cmds = << >>
    /\ pc = "idle"
    /\ args \in SimInputs
    /\ calls = << >>

\* what a call of the function fn left
Outcome(fn, out) == [op |-> fn, status |-> out.status, value |-> out.value]

\* Simulation(ham_name, sim_dict, alf_dir, **kwargs)
Construct ==
    /\ result' = Outcome("Simulation",
                   Simulation(args.ham_name, args.sim_dict, args.alf_dir,
                              args.kwargs))
    /\ UNCHANGED <<lines, world>>

\* set_param(ham_name, sim_dict) on a dictionary, as _prep_sim_dir calls it
SetParam ==
    /\ \E i \in 1..Len(args.sim_dict.dicts) :
         LET out == set_param(args.ham_name, args.sim_dict.dicts[i])
         IN  result' = [op |-> "set_param", d |-> args.sim_dict.dicts[i],
                        status |-> out.status, value |-> out.value]
    /\ UNCHANGED <<lines, world>>

\* directory_name(ham_name, sim_dict)
DirectoryName ==
    /\ result' = Outcome("directory_name",
                         directory_name(args.ham_name, args.sim_dict))
    /\ UNCHANGED <<lines, world>>

NextSim == Construct \/ SetParam \/ DirectoryName

SpecSim == InitSim /\ [][NextSim]_vars

(***************************************************************************)
(* Vocabulary of the claims about parameters and options.                  *)
(***************************************************************************)
\* two names that differ at most in the case of their letters
SameName(a, b) == Lower(a) = Lower(b)

GenericNamelists == <<"VAR_QMC", "VAR_errors", "VAR_TEMP", "VAR_Max_Stoch">>

\* the default parameters of a namelist, by its name
DefaultsOf(name) ==
    CASE name = "VAR_QMC" -> VAR_QMC
      [] name = "VAR_errors" -> VAR_errors
      [] name = "VAR_TEMP" -> VAR_TEMP
      [] name = "VAR_Max_Stoch" -> VAR_Max_Stoch
      [] OTHER -> PARAMS_MODEL(name)

\* the parameter names of a list of namelists, in lower case
LoweredNames(namelists) ==
    UNION { {Lower(DefaultsOf(namelists[i])[j].name) :
               j \in 1..Len(DefaultsOf(namelists[i]))} :
            i \in 1..Len(namelists) }

LoweredModel == [h \in HamNames |-> LoweredNames(IN_HAM(h))]

LoweredGeneric == LoweredNames(GenericNamelists)

\* key names a model-specific parameter of the hamiltonian
IsModelParameter(ham_name, key) == Lower(key) \in LoweredModel[ham_name]

\* key names a model-specific or a generic parameter
IsParameter(ham_name, key) ==
    IsModelParameter(ham_name, key) \/ Lower(key) \in LoweredGeneric

\* the keys of the dictionary, or of all the dictionaries of the list
AllKeys(sim_dict) ==
    UNION { Range(ParNames(sim_dict.dicts[i])) : i \in 1..Len(sim_dict.dicts) }

UnknownKey ==
    \E key \in AllKeys(args.sim_dict) : ~IsParameter(args.ham_name, key)

IsParamError(status) == StartsWith(status, "Parameter ")

\* nothing but the override keys can make the construction fail before
\* they are checked
KeysReached ==
    /\ args.sim_dict.dicts # << >>
    /\ args.kwargs.names \subseteq KnownKwargs

\* C14: constructing a Simulation raises when some key of sim_dict, or of
\* any dictionary of the list sim_dict, is, letter case apart, no parameter
\* of the hamiltonian's namelists nor of the generic ones; it is the
\* unknown key that is reported when nothing fails earlier; with every key
\* known no such error is raised.
C14_KeysValidated ==
    result.op = "Simulation" =>
      /\ UnknownKey => result.status # "ok"
      /\ UnknownKey /\ KeysReached => IsParamError(result.status)
      /\ ~UnknownKey => ~IsParamError(result.status)

\* a list whose first dictionary is valid and whose second holds an
\* unknown key was rejected for that key
C14_Witness ==
    /\ result.op = "Simulation" /\ IsParamError(result.status)
    /\ args.sim_dict.isList /\ Len(args.sim_dict.dicts) = 2
    /\ Len(args.sim_dict.dicts[1]) = 1
    /\ \A key \in Range(ParNames(args.sim_dict.dicts[1])) :
         IsParameter(args.ham_name, key)

\* the value the items of d give the parameter: that of the last item
\* naming it, letter case apart, and the default when none names it
ValueAfter(d, par) ==
    LET hits == {i \in 1..Len(d) : SameName(d[i].name, par.name)}
    IN  IF hits = {} THEN par.value
        ELSE d[CHOOSE i \in hits : \A j \in hits : j <= i].value

\* the namelists set_param is to return: those of the hamiltonian, the
\* generic ones and VAR_ham_name, in this order, with the values d gives
ExpectedParams(ham_name, d) ==
    LET names == IN_HAM(ham_name) \o GenericNamelists
        Overridden(pars) ==
            [v \in 1..Len(pars) |->
               Par(pars[v].name, ValueAfter(d, pars[v]), pars[v].comment)]
    IN  [n \in 1..Len(names) |->
           Namelist(names[n], Overridden(DefaultsOf(names[n])))]
        \o << Namelist("VAR_ham_name",
                Overridden(<< Par("ham_name", ham_name,
                                  "Name of Hamiltonian") >>)) >>

\* C15: set_param raises when a key of the dictionary names, letter case
\* apart, no parameter; otherwise it returns the namelists of
\* IN_HAM[ham_name] in order, then the generic namelists, then VAR_ham_name
\* whose parameter ham_name defaults to ham_name, every parameter with its
\* comment and with the value of the key naming it, or its default value
\* when no key names it.
C15_SetParam ==
    result.op = "set_param" =>
      IF \E i \in 1..Len(result.d) :
           /\ ~IsParameter(args.ham_name, result.d[i].name)
           /\ ~SameName(result.d[i].name, "ham_name")
      THEN result.status # "ok"
      ELSE /\ result.status = "ok"
           /\ result.value = ExpectedParams(args.ham_name, result.d)

\* set_param returned with L1, named in lower case, set to 8 and with the
\* generic Nsweep set to 20
C15_Witness ==
    /\ result.op = "set_param" /\ result.status = "ok"
    /\ result.d = << Item("l1", "8"), Item("Nsweep", "20") >>
    /\ result.value[1].pars[1] = Par("L1", "8", "")
    /\ result.value[Len(result.value)].name = "VAR_ham_name"

\* the keyword arguments as the constructor reads them
MachineArg ==
    IF "machine" \in args.kwargs.names THEN args.kwargs.values.machine
    ELSE "GNU"

StabArg ==
    IF "stab" \in args.kwargs.names THEN args.kwargs.values.stab ELSE ""

MachineOK ==
    \E m \in {"GNU", "INTEL", "PGI", "JUWELS", "SUPERMUC-NG"} :
      SameName(MachineArg, m)

\* an empty stab stands for an omitted one
StabOK ==
    \/ StabArg = ""
    \/ \E st \in {"STAB1", "STAB2", "STAB3", "LOG"} : SameName(StabArg, st)

\* nothing but machine and stab can make the construction fail
OptionsReached ==
    /\ KeysReached
    /\ ~UnknownKey
    /\ (args.sim_dict.isList
         \/ ("mpi" \in args.kwargs.names /\ args.kwargs.values.mpi))
       => "n_mpi" \in args.kwargs.names

\* C16: constructing a Simulation raises when a keyword other than the
\* eleven known ones is passed; it succeeds only with a machine that is,
\* letter case apart, one of GNU, INTEL, PGI, JUWELS, SUPERMUC-NG and with
\* a stab that is omitted (or empty) or, letter case apart, one of STAB1,
\* STAB2, STAB3, LOG; when nothing else fails it succeeds exactly with
\* such a machine and stab, and reports the machine, else the stab.
C16_OptionsValidated ==
    result.op = "Simulation" =>
      /\ ~(args.kwargs.names \subseteq
             { "sim_dir", "sim_root", "branch", "mpi", "n_mpi", "n_omp",
               "mpiexec", "machine", "stab", "devel", "hdf5" })
           => result.status # "ok"
      /\ result.status = "ok" => MachineOK /\ StabOK
      /\ OptionsReached =>
           /\ result.status = "ok" <=> MachineOK /\ StabOK
           /\ ~MachineOK => StartsWith(result.status, "Illegal value machine=")
           /\ MachineOK /\ ~StabOK =>
                StartsWith(result.status, "Illegal value stab=")

\* a machine and a stab written in lower and mixed case were accepted
C16_Witness ==
    /\ result.op = "Simulation" /\ result.status = "ok"
    /\ {"machine", "stab"} \subseteq args.kwargs.names
    /\ MachineArg = "supermuc-ng" /\ StabArg = "Log"

\* the name without a leading 'ham_' in any letter case
StripHam(key) ==
    IF Len(key) >= 4 /\ SameName(SubSeq(key, 1, 4), "ham_")
    THEN SubSeq(key, 5, Len(key)) ELSE key

\* what the items contribute to the directory name, in their order
Components(ham_name, d) ==
    Flatten([i \in 1..Len(d) |->
      IF ~IsModelParameter(ham_name, d[i].name) THEN << >>
      ELSE IF SameName(d[i].name, "Lattice_type") THEN << d[i].value >>
      ELSE IF SameName(d[i].name, "Model")
      THEN IF d[i].value # ham_name THEN << d[i].value >> ELSE << >>
      ELSE << StripHam(d[i].name) \o "=" \o d[i].value >>])

\* the strings of a non-empty list joined by sep
RECURSIVE JoinWith(_, _)
JoinWith(seq, sep) ==
    IF Len(seq) = 1 THEN seq[1]
    ELSE seq[1] \o sep \o JoinWith(Tail(seq), sep)

Url == "https://git.physik.uni-wuerzburg.de/ALF/ALF.git"

\* subprocess.run(argv, check=True): the invocation appended to the log
Invoked(argv, ok) == Append(cmds, [argv |-> argv, cwd |-> cwd, ok |-> ok])

\* the command line of getenv
Configure(config) ==
    << "bash", "-c",
       ". ./configure.sh " \o config \o " || exit 1 && env > environment" >>

\* a slip: the working directory left where the call put it
CdExitStay(frame) == cwd

\* cd.__exit__: os.chdir(self.saved_path)
CdExit(frame) == frame.saved_path

\* 'with cd(alf_dir)': cd.__init__ saves os.getcwd(), cd.__enter__ changes
\* to alf_dir; then the first step inside the block
EnterAlfDir(frame) ==
    /\ args' = [frame EXCEPT !.saved_path = cwd]
    /\ cwd' = frame.alf_dir
    /\ pc' = IF frame.branch # None THEN "checkout" ELSE "getenv"

\* an exception leaving compile_alf from inside 'with cd(alf_dir)'
RaiseInside(exc) ==
    /\ result' = Outcome("compile_alf", Raised(exc))
    /\ cwd' = CdExit(args)
    /\ pc' = "idle"

\* the options of the simulations that get compiled
CompileKw ==
    { Kwargs({}, "GNU", ""), Kwargs({"branch", "machine"}, "intel", ""),
      Kwargs({"branch", "mpi", "n_mpi", "stab"}, "GNU", "log") }

\* Simulation.compile: compile_alf(self.alf_dir, self.branch, self.config),
\* up to its first subprocess
CompileCall ==
    /\ pc = "idle"
    /\ \E kw \in CompileKw :
         LET sim == Simulation("Hubbard", SimDict(FALSE, << << >> >>), "ALF", kw).value
             frame == [fn |-> "compile_alf", alf_dir |-> AbsPath(sim.alf_dir),
                       branch |-> sim.branch, config |-> sim.config,
                       existed |-> alf.exists, called_in |-> cwd,
                       saved_path |-> None]
         IN  IF alf.exists THEN EnterAlfDir(frame)
             ELSE args' = frame /\ pc' = "clone" /\ cwd' = cwd
    /\ cmds' = << >>
    /\ result' = [op |-> "compile_alf", status |-> "running", value |-> << >>]
    /\ UNCHANGED <<lines, fs, alf, calls>>

\* git clone url alf_dir
GitClone ==
    /\ pc = "clone"
    /\ \E ok \in BOOLEAN :
         /\ cmds' = Invoked(<<"git", "clone", Url, args.alf_dir>>, ok)
         /\ IF ok
            THEN /\ alf' = [exists |-> TRUE, files |-> << >>]
                 /\ EnterAlfDir(args)
                 /\ UNCHANGED result
            ELSE /\ result' = Outcome("compile_alf",
                                Raised("Error while cloning repository"))
                 /\ pc' = "idle"
                 /\ UNCHANGED <<alf, cwd, args>>
    /\ UNCHANGED <<lines, fs, calls>>

\* git checkout branch
GitCheckout ==
    /\ pc = "checkout"
    /\ \E ok \in BOOLEAN :
         /\ cmds' = Invoked(<<"git", "checkout", args.branch>>, ok)
         /\ IF ok THEN pc' = "getenv" /\ UNCHANGED <<result, cwd>>
            ELSE RaiseInside("Error while checking out " \o args.branch)
    /\ UNCHANGED <<lines, fs, alf, args, calls>>

\* getenv(config): configure.sh run in a shell that writes its environment
GetEnv ==
    /\ pc = "getenv"
    /\ \E ok \in BOOLEAN :
         /\ cmds' = Invoked(Configure(args.config), ok)
         /\ IF ok
            THEN /\ alf' = [alf EXCEPT !.files = ("environment" :> args.config) @@ @]
                 /\ pc' = "clean"
                 /\ UNCHANGED <<result, cwd>>
            ELSE RaiseInside("CalledProcessError") /\ UNCHANGED alf
    /\ UNCHANGED <<lines, fs, args, calls>>

\* make target, and the step that follows it
Make(at, target, next) ==
    /\ pc = at
    /\ \E ok \in BOOLEAN :
         /\ cmds' = Invoked(<<"make", target>>, ok)
         /\ IF ~ok THEN RaiseInside("CalledProcessError")
            ELSE IF next = "idle"
            THEN /\ result' = Outcome("compile_alf", Returned(None))
                 /\ cwd' = CdExit(args)
                 /\ pc' = "idle"
            ELSE pc' = next /\ UNCHANGED <<result, cwd>>
    /\ UNCHANGED <<lines, fs, alf, args, calls>>

MakeClean == Make("clean", "clean", "ana")

MakeAna == Make("ana", "ana", "program")

MakeProgram == Make("program", "program", "idle")

\* the process is in either of two directories, the source tree is there
\* or not
InitCompile ==
    /\ lines = << >>
    /\ result = NoResult
    /\ fs = NoDir
    /\ alf \in {NoDir, [exists |-> TRUE, files |-> << >>]}
    /\ cwd \in {Home, "/scratch"}
    /\ cmds = << >>
    /\ pc = "idle"
    /\ args = NoArgs
    /\ calls = << >>

NextCompile ==
    \/ CompileCall \/ GitClone \/ GitCheckout \/ GetEnv
    \/ MakeClean \/ MakeAna \/ MakeProgram

SpecCompile == InitCompile /\ [][NextCompile]_vars

\* what an invocation runs, read off its command line
Kind(c) ==
    IF c.argv[1] = "bash" THEN "configure" ELSE c.argv[2]

\* the invocations a call makes when nothing fails
Expected(frame) ==
    (IF frame.existed THEN << >> ELSE <<"clone">>)
    \o (IF frame.branch # None THEN <<"checkout">> ELSE << >>)
    \o <<"configure", "clean", "ana", "program">>

\* the log is the beginning of the expected invocations, and only its last
\* invocation can have failed
OrderedLog ==
    LET want == Expected(args)
    IN  /\ Len(cmds) <= Len(want)
        /\ \A i \in 1..Len(cmds) :
             /\ Kind(cmds[i]) = want[i]
             /\ i < Len(cmds) => cmds[i].ok

\* each invocation has the command line and the directory of its step
WellPlaced ==
    \A i \in 1..Len(cmds) :
       LET c == cmds[i]
       IN  CASE Kind(c) = "clone" ->
                  /\ ~args.existed
                  /\ c.argv = <<"git", "clone", Url, args.alf_dir>>
                  /\ c.cwd = args.called_in
             [] Kind(c) = "checkout" ->
                  /\ args.branch # None
                  /\ c.argv = <<"git", "checkout", args.branch>>
                  /\ c.cwd = args.alf_dir
                  /\ args.existed \/ (i = 2 /\ Kind(cmds[1]) = "clone" /\ cmds[1].ok)
             [] Kind(c) = "configure" ->
                  /\ c.argv = Configure(args.config)
                  /\ c.cwd = args.alf_dir
             [] OTHER ->
                  /\ c.argv[1] = "make"
                  /\ c.cwd = args.alf_dir

\* a call has ended: it returned after all the invocations, or raised on
\* the one that failed, and the process is where the call found it
Ended ==
    /\ cmds # << >>
    /\ cwd = args.called_in
    /\ IF cmds[Len(cmds)].ok
       THEN result.status = "ok" /\ Len(cmds) = Len(Expected(args))
       ELSE result.status \notin {"ok", "running"}

\* C18: compile_alf clones exactly when alf_dir did not exist, checks the
\* branch out exactly when one is given and only once the repository is
\* there, then configures the environment and runs make clean, make ana,
\* make program in that order; a failing step raises and nothing runs after
\* it; the call, returned or raised, leaves the working directory as it
\* found it.
C18_CompileOrder ==
    args.fn = "compile_alf" =>
        /\ OrderedLog
        /\ WellPlaced
        /\ IF pc = "idle" THEN Ended
           ELSE /\ result.status = "running"
                /\ \A i \in 1..Len(cmds) : cmds[i].ok

\* a call that cloned, checked out a branch, configured, cleaned and failed
\* in 'make ana', back in the directory it was made in
C18_Witness ==
    /\ args.fn = "compile_alf"
    /\ pc = "idle"
    /\ Len(cmds) = 5
    /\ Kind(cmds[1]) = "clone"
    /\ Kind(cmds[2]) = "checkout"
    /\ Kind(cmds[5]) = "ana"
    /\ ~cmds[5].ok
    /\ result.status = "CalledProcessError"
    /\ cwd = "/scratch"
    /\ cmds[4].cwd = "/scratch/ALF"

(***************************************************************************)
(* analysis, one step per os.listdir() and per subprocess.  In this part   *)
(* fs maps the path of each directory that exists to its files.            *)
(***************************************************************************)
\* a slip: the time-displaced files analysed before the equal-time ones
AfterSwapped(loop) ==
    IF loop = "_scal" THEN "_tau" ELSE IF loop = "_tau" THEN "_eq" ELSE "done"

\* the loop that follows a loop of analysis
After(loop) ==
    IF loop = "_scal" THEN "_eq" ELSE IF loop = "_eq" THEN "_tau" ELSE "done"

\* the names of a listing the loop runs the executable for
RECURSIVE Selected(_, _)
Selected(listing, suffix) ==
    IF listing = << >> THEN << >>
    ELSE (IF EndsWith(Head(listing), suffix) THEN << Head(listing) >> ELSE << >>)
         \o Selected(Tail(listing), suffix)

\* os.path.join(alf_dir, 'Analysis', name)
Executable(frame, name) == JoinPath(JoinPath(frame.alf_dir, "Analysis"), name)

\* analysis(alf_dir, sim_dir, hdf5) up to its first step: 'with cd(sim_dir)'
BeginAnalysis(frame, sim_dir) ==
    /\ cmds' = << >>
    /\ IF sim_dir \in DOMAIN fs
       THEN /\ args' = [frame EXCEPT !.sim_dir = sim_dir, !.saved_path = cwd,
                                     !.loop = "_scal", !.todo = << >>]
            /\ cwd' = sim_dir
            /\ pc' = IF frame.hdf5 THEN "hdf5" ELSE "list"
            /\ result' = [op |-> "analysis", status |-> "running", value |-> << >>]
       ELSE /\ args' = [frame EXCEPT !.sim_dir = sim_dir]
            /\ result' = Outcome("analysis", Raised("FileNotFoundError"))
            /\ pc' = "idle"
            /\ UNCHANGED cwd

\* the directories Simulation.analysis analyses
AnalysedDirs(sim) ==
    IF sim.tempering
    THEN [i \in 1..Len(sim.sim_dict.dicts) |->
            JoinPath(sim.sim_dir, "Temp_" \o ToString(i - 1))]
    ELSE << sim.sim_dir >>

\* the simulations that get analysed: plain, with HDF5, with tempering
AnalysisSims ==
    { SimCall("Hubbard", SimDict(FALSE, << <<Item("L1", "4")>> >>),
              Kwargs({"sim_dir"}, "GNU", "")),
      SimCall("Hubbard", SimDict(FALSE, << <<Item("L1", "4")>> >>),
              Kwargs({"sim_dir", "hdf5"}, "GNU", "")),
      SimCall("Hubbard", SimDict(TRUE, << <<Item("L1", "4")>>, <<Item("L1", "6")>> >>),
              Kwargs({"sim_dir", "n_mpi"}, "GNU", "")) }

\* Simulation.analysis
AnalysisCall ==
    /\ pc = "idle"
    /\ \E c \in AnalysisSims :
         LET sim   == Simulation(c.ham_name, c.sim_dict, c.alf_dir, c.kwargs).value
             dirs  == AnalysedDirs(sim)
             frame == [fn |-> "analysis", alf_dir |-> sim.alf_dir,
                       hdf5 |-> sim.hdf5, sim_dir |-> None, later |-> Tail(dirs),
                       called_in |-> cwd, saved_path |-> None,
                       loop |-> "_scal", todo |-> << >>]
         IN  BeginAnalysis(frame, Head(dirs))
    /\ UNCHANGED <<lines, fs, alf, calls>>

\* analysis leaves 'with cd(sim_dir)' and returns
ReturnAnalysis ==
    /\ cwd' = CdExit(args)
    /\ pc' = "return"

\* the loop over the listed names goes on with the names left, or ends and
\* the next loop lists the directory
Continue(left) ==
    IF left # << >>
    THEN args' = [args EXCEPT !.todo = left] /\ pc' = "run" /\ UNCHANGED cwd
    ELSE IF After(args.loop) = "done"
    THEN args' = [args EXCEPT !.todo = left] /\ ReturnAnalysis
    ELSE /\ args' = [args EXCEPT !.todo = left, !.loop = After(args.loop)]
         /\ pc' = "list"
         /\ UNCHANGED cwd

\* for name in os.listdir(): the listing of one of the three loops
ListDir ==
    /\ pc = "list"
    /\ \E listing \in Orders(DOMAIN fs[args.sim_dir]) :
         Continue(Selected(listing, args.loop))
    /\ UNCHANGED <<lines, result, fs, alf, cmds, calls>>

\* subprocess.run([executable, name], check=True, env=env)
RunAna ==
    /\ pc = "run"
    /\ \E ok \in BOOLEAN :
         /\ cmds' = Invoked(<<Executable(args, "ana.out"), Head(args.todo)>>, ok)
         /\ IF ok THEN Continue(Tail(args.todo)) /\ UNCHANGED result
            ELSE /\ result' = Outcome("analysis", Raised("CalledProcessError"))
                 /\ cwd' = CdExit(args)
                 /\ pc' = "idle"
                 /\ UNCHANGED args
    /\ UNCHANGED <<lines, fs, alf, calls>>

\* subprocess.run([executable], check=True, env=env) of the HDF5 analysis
RunAnaHdf5 ==
    /\ pc = "hdf5"
    /\ \E ok \in BOOLEAN :
         /\ cmds' = Invoked(<<Executable(args, "ana_hdf5.out")>>, ok)
         /\ IF ok THEN ReturnAnalysis /\ UNCHANGED result
            ELSE /\ result' = Outcome("analysis", Raised("CalledProcessError"))
                 /\ cwd' = CdExit(args)
                 /\ pc' = "idle"
    /\ UNCHANGED <<lines, fs, alf, args, calls>>

\* back in Simulation.analysis: the next temperature, or the end
NextAnalysis ==
    /\ pc = "return"
    /\ IF args.later = << >>
       THEN /\ result' = Outcome("analysis", Returned(None))
            /\ pc' = "idle"
            /\ UNCHANGED <<cwd, cmds, args>>
       ELSE BeginAnalysis([args EXCEPT !.later = Tail(@)], Head(args.later))
    /\ UNCHANGED <<lines, fs, alf, calls>>

\* a directory with the given file names
DirOf(names) == [n \in names |-> ""]

\* the directories of a simulation: bins of scalar, equal-time and
\* time-displaced observables, results of an earlier analysis, other files
AnalysisDirs ==
    { DirOf({"Ener_scal", "Kin_scal", "Green_eq", "Green_tau", "Ener_scalJ"}),
      DirOf({"Ener_scal", "Green_eq", "SpinZ_eq", "parameters"}),
      DirOf({"Green_tau", "Den_tau", "Green_eqJK", "info"}),
      DirOf({}) }

RunDir == "/home/user/ALF_data/run_1"

\* the directories that exist: that of the simulation, or those of its
\* temperatures, or the first of them only
AnalysisTrees ==
    { (RunDir :> d) : d \in AnalysisDirs }
    \cup { (JoinPath(RunDir, "Temp_0") :> d) : d \in AnalysisDirs }
    \cup { (JoinPath(RunDir, "Temp_0") :> d) @@ (JoinPath(RunDir, "Temp_1") :> e) :
             d \in AnalysisDirs, e \in AnalysisDirs }
    \cup { << >> }

InitAnalysis ==
    /\ lines = << >>
    /\ result = NoResult
    /\ fs \in AnalysisTrees
    /\ alf = [exists |-> TRUE, files |-> << >>]
    /\ cwd = Home
    /\ cmds = << >>
    /\ pc = "idle"
    /\ args = NoArgs
    /\ calls = << >>

NextAnalysisStep ==
    \/ AnalysisCall \/ ListDir \/ RunAna \/ RunAnaHdf5 \/ NextAnalysis

SpecAnalysis == InitAnalysis /\ [][NextAnalysisStep]_vars

\* the place of a file in the analysis: 1 for scalar bins, 2 for equal-time
\* bins, 3 for time-displaced bins, 0 for a file that is not analysed
Rank(name) ==
    IF EndsWith(name, "_scal") THEN 1
    ELSE IF EndsWith(name, "_eq") THEN 2
    ELSE IF EndsWith(name, "_tau") THEN 3
    ELSE 0

\* the files of the directory being analysed
Present == DOMAIN fs[args.sim_dir]

\* the file an invocation of the per-file executable is for
FileOf(c) == c.argv[2]

\* the per-file invocations: of the analysis executable, inside sim_dir,
\* for files to analyse, each once, scalar before equal-time before
\* time-displaced, none of a kind before all of the kinds before it
PerFile ==
    \A i \in 1..Len(cmds) :
       /\ cmds[i].argv = << args.alf_dir \o "/Analysis/ana.out", FileOf(cmds[i]) >>
       /\ cmds[i].cwd = args.sim_dir
       /\ FileOf(cmds[i]) \in Present
       /\ Rank(FileOf(cmds[i])) > 0
       /\ \A j \in 1..(i - 1) :
            /\ FileOf(cmds[j]) # FileOf(cmds[i])
            /\ Rank(FileOf(cmds[j])) <= Rank(FileOf(cmds[i]))
       /\ \A n \in Present :
            (Rank(n) > 0 /\ Rank(n) < Rank(FileOf(cmds[i])))
               => \E j \in 1..(i - 1) : FileOf(cmds[j]) = n

\* the HDF5 analysis: at most the one invocation
OnceHdf5 ==
    /\ Len(cmds) <= 1
    /\ \A i \in 1..Len(cmds) :
         /\ cmds[i].argv = << args.alf_dir \o "/Analysis/ana_hdf5.out" >>
         /\ cmds[i].cwd = args.sim_dir

\* analysis has returned: nothing is left to invoke
Complete ==
    /\ \A i \in 1..Len(cmds) : cmds[i].ok
    /\ IF args.hdf5 THEN Len(cmds) = 1
       ELSE \A n \in Present :
              Rank(n) > 0 => \E i \in 1..Len(cmds) : FileOf(cmds[i]) = n

\* C19: without hdf5, analysis invokes the analysis executable once for
\* every file of sim_dir ending in '_scal', then for every file ending in
\* '_eq', then for every file ending in '_tau', and for no other file; with
\* hdf5 it invokes the HDF5 analysis executable exactly once and nothing
\* per file; an invocation that fails raises and none follows it.
C19_Analysis ==
    (args.fn = "analysis" /\ args.sim_dir \in DOMAIN fs) =>
        /\ IF args.hdf5 THEN OnceHdf5 ELSE PerFile
        /\ \A i \in 1..(Len(cmds) - 1) : cmds[i].ok
        /\ (cmds # << >> /\ ~cmds[Len(cmds)].ok) <=>
              (pc = "idle" /\ result.status = "CalledProcessError")
        /\ (pc = "return" \/ (pc = "idle" /\ result.status = "ok")) => Complete

\* the analysis of the second temperature has returned: two scalar files,
\* then the equal-time file, then the time-displaced file, and nothing for
\* the file ending in '_scalJ'
C19_Witness ==
    /\ args.fn = "analysis"
    /\ args.sim_dir = "/home/user/ALF_data/run_1/Temp_1"
    /\ pc = "idle"
    /\ result.status = "ok"
    /\ "Ener_scalJ" \in DOMAIN fs[args.sim_dir]
    /\ Len(cmds) = 4
    /\ FileOf(cmds[1]) = "Kin_scal"
    /\ FileOf(cmds[2]) = "Ener_scal"
    /\ FileOf(cmds[3]) = "Green_eq"
    /\ FileOf(cmds[4]) = "Green_tau"

(***************************************************************************)
(* write_parameters.  A parameter value is carried as the text str(value)  *)
(* gives, from which its Python type is read: True and False are the bool  *)
(* values, digits with a point or an exponent a float, digits an int,      *)
(* anything else a str.                                                    *)
(***************************************************************************)
Digits == "0123456789"

\* c is one of the characters of chars
OneOf(c, chars) == \E i \in 1..Len(chars) : SubSeq(chars, i, i) = c

\* every character of s is one of chars
AllOf(s, chars) == \A i \in 1..Len(s) : OneOf(SubSeq(s, i, i), chars)

\* some character of s is one of chars
SomeOf(s, chars) == \E i \in 1..Len(s) : OneOf(SubSeq(s, i, i), chars)

IsBoolText(v) == v \in {"True", "False"}

IsIntText(v) ==
    /\ v # ""
    /\ AllOf(v, Digits \o "-")
    /\ SomeOf(v, Digits)

IsFloatText(v) ==
    /\ AllOf(v, Digits \o "-+.e")
    /\ SomeOf(v, Digits)
    /\ SomeOf(v, ".e")

\* s.replace('e', 'd')
RECURSIVE ReplaceE(_)
ReplaceE(s) ==
    IF s = "" THEN ""
    ELSE (IF Head(s) = "e" THEN "d" ELSE Head(s)) \o ReplaceE(Tail(s))

\* _convert_par_to_str(parameter)
_convert_par_to_str(parameter) ==
    IF IsBoolText(parameter) THEN (IF parameter = "True" THEN ".T." ELSE ".F.")
    ELSE IF IsFloatText(parameter)
    THEN (IF SomeOf(parameter, "e") THEN ReplaceE(parameter)
          ELSE parameter \o "d0")
    ELSE IF IsIntText(parameter) THEN parameter
    ELSE "\"" \o parameter \o "\""

\* the lines written for the variables of a namelist
RECURSIVE VarLines(_, _)
VarLines(pars, i) ==
    IF i > Len(pars) THEN ""
    ELSE pars[i].name \o " = " \o _convert_par_to_str(pars[i].value)
         \o "  ! " \o pars[i].comment \o "\n" \o VarLines(pars, i + 1)

\* the text of the file 'parameters'
RECURSIVE write_parameters(_, _)
write_parameters(params, n) ==
    IF n > Len(params) THEN ""
    ELSE "&" \o params[n].name \o "\n" \o VarLines(params[n].pars, 1) \o "/\n\n"
         \o write_parameters(params, n + 1)

(***************************************************************************)
(* out_to_in and _prep_sim_dir.  fs maps the path of each directory that   *)
(* exists to its files, a file name to the content of the file.            *)
(***************************************************************************)
\* a slip: the underscore of 'confout_' kept
ConfinKeepUnderscore(name) == "confin_" \o SubSeq(name, 8, Len(name))

\* 'confin_' + name[8:]
Confin(name) == "confin_" \o SubSeq(name, 9, Len(name))

\* os.replace(src, dst) among the files of a directory
Replace(files, src, dst) ==
    [n \in (DOMAIN files \ {src}) \cup {dst} |->
       IF n = dst THEN files[src] ELSE files[n]]

\* the names starting with 'confout_' in the orders in which os.listdir()
\* may give them
Listings(files) ==
    Orders({ n \in DOMAIN files : StartsWith(n, "confout_") })

\* out_to_in in a directory with these files, listing being the names of
\* os.listdir() that the loop acts on
RECURSIVE out_to_in(_, _)
out_to_in(files, listing) ==
    IF listing = << >> THEN files
    ELSE out_to_in(IF StartsWith(Head(listing), "confout_")
                   THEN Replace(files, Head(listing), Confin(Head(listing)))
                   ELSE files,
                   Tail(listing))

SeedsFile == "Scripts_and_Parameters_files/Start/seeds"

\* params = set_param(ham_name, sim_dict); write_parameters(params): the
\* text written, or the exception of set_param
ParametersFile(ham_name, sim_dict) ==
    LET params == set_param(ham_name, sim_dict)
    IN  IF params.status # "ok" THEN [status |-> params.status, text |-> ""]
        ELSE [status |-> "ok", text |-> write_parameters(params.value, 1)]

\* _prep_sim_dir up to its call of out_to_in: the directory made, the seeds
\* copied, the parameters written; tree is the file system it leaves
Prepared(tree, alf_files, sim_dir, params) ==
    LET made   == IF sim_dir \in DOMAIN tree THEN tree
                  ELSE (sim_dir :> << >>) @@ tree
    IN  IF SeedsFile \notin DOMAIN alf_files
        THEN [status |-> "FileNotFoundError", tree |-> made]
        ELSE LET copied == [made EXCEPT ![sim_dir] =
                              ("seeds" :> alf_files[SeedsFile]) @@ @]
             IN  IF params.status # "ok"
                 THEN [status |-> params.status, tree |-> copied]
                 ELSE [status |-> "ok",
                       tree   |-> [copied EXCEPT ![sim_dir] =
                                     ("parameters" :> params.text)
                                     @@ @]]

\* the files of a directory, none when it does not exist
FilesIn(tree, dir) == IF dir \in DOMAIN tree THEN tree[dir] ELSE << >>

\* what a call on a directory leaves: the files it found there
Left(fn, status, dir) ==
    [op |-> fn, status |-> status, dir |-> dir, before |-> FilesIn(fs, dir)]

\* out_to_in() called in the working directory
OutToIn ==
    /\ pc = "idle"
    /\ cwd \in DOMAIN fs
    /\ \E listing \in Listings(fs[cwd]) :
         fs' = [fs EXCEPT ![cwd] = out_to_in(@, listing)]
    /\ result' = Left("out_to_in", "ok", cwd)
    /\ UNCHANGED <<lines, alf, cwd, cmds, pc, args, calls>>

\* the hamiltonians and dictionaries directories are prepared with
PrepInputs ==
    { [ham_name |-> "Hubbard", sim_dict |-> << Item("L1", "4") >>],
      [ham_name |-> "Kondo", sim_dict |-> << Item("L1", "4"), Item("Nsweep", "20") >>],
      [ham_name |-> "Hubbard", sim_dict |-> << Item("foo", "1") >>] }

\* the parameter files of these inputs
ParameterFiles ==
    [c \in PrepInputs |-> ParametersFile(c.ham_name, c.sim_dict)]

\* _prep_sim_dir(alf_dir, sim_dir, ham_name, sim_dict)
PrepSimDir ==
    /\ pc = "idle"
    /\ \E c \in PrepInputs :
         LET p == Prepared(fs, alf.files, RunDir, ParameterFiles[c])
         IN  /\ args' = [fn |-> "_prep_sim_dir", sim_dir |-> RunDir,
                         ham_name |-> c.ham_name, sim_dict |-> c.sim_dict,
                         saved_path |-> cwd]
             /\ result' = Left("_prep_sim_dir", p.status, RunDir)
             /\ IF p.status # "ok" THEN fs' = p.tree
                ELSE \E listing \in Listings(p.tree[RunDir]) :
                       fs' = [p.tree EXCEPT ![RunDir] = out_to_in(@, listing)]
             /\ cwd' = CdExit(args')
    /\ UNCHANGED <<lines, alf, cmds, pc, calls>>

\* most runs of the executable
MaxRuns == 2

\* the configuration files a run leaves: one per process, or one HDF5 file
ConfoutNames ==
    { {"confout_0"}, {"confout_0", "confout_1"}, {"confout_0.h5"} }

\* the executable has run in a prepared directory and left its output
\* configurations there
ALFRun ==
    /\ pc = "idle"
    /\ Len(calls) < MaxRuns
    /\ RunDir \in DOMAIN fs
    /\ "parameters" \in DOMAIN fs[RunDir]
    /\ \E names \in ConfoutNames :
         fs' = [fs EXCEPT ![RunDir] =
                  [n \in names |-> "configuration " \o ToString(Len(calls) + 1)] @@ @]
    /\ calls' = Append(calls, "ALF.out")
    /\ result' = Left("ALF.out", "ok", RunDir)
    /\ UNCHANGED <<lines, alf, cwd, cmds, pc, args>>

\* the simulation directory before the first call: absent, empty, or with
\* the files of earlier runs
PrepTrees ==
    { << >>,
      (RunDir :> << >>),
      (RunDir :> [n \in {"confout_0", "confin_0", "info"} |-> "old " \o n]),
      (RunDir :> [n \in {"confout_0", "confout_1", "confin_1", "Ener_scal"}
                    |-> "old " \o n]),
      (RunDir :> [n \in {"confout_0.h5", "confout_", "seeds", "myconfout_2"}
                    |-> "old " \o n]) }

\* the source tree with and without the seeds file
ALFTrees ==
    { [exists |-> TRUE, files |-> (SeedsFile :> "seeds of ALF")],
      [exists |-> TRUE, files |-> << >>] }

InitPrep ==
    /\ lines = << >>
    /\ result = NoResult
    /\ fs \in PrepTrees
    /\ alf \in ALFTrees
    /\ cwd \in {Home} \cup DOMAIN fs
    /\ cmds = << >>
    /\ pc = "idle"
    /\ args = NoArgs
    /\ calls = << >>

NextPrep == OutToIn \/ PrepSimDir \/ ALFRun

SpecPrep == InitPrep /\ [][NextPrep]_vars

\* name is 'confout_X' and renamed is 'confin_X' for the same X
IsRenameOf(renamed, name) ==
    \E k \in 0..Len(name) :
       LET X == SubSeq(name, Len(name) - k + 1, Len(name))
       IN  name = "confout_" \o X /\ renamed = "confin_" \o X

\* after holds what before held with every 'confout_X' renamed 'confin_X';
\* the files named in written are left out of the comparison
RenamedAll(before, after, written) ==
    /\ \A n \in DOMAIN after : ~StartsWith(n, "confout_")
    /\ \A n \in DOMAIN before :
         IF StartsWith(n, "confout_")
         THEN \E m \in DOMAIN after : IsRenameOf(m, n) /\ after[m] = before[n]
         ELSE (n \notin written /\ ~\E o \in DOMAIN before : IsRenameOf(n, o))
                 => (n \in DOMAIN after /\ after[n] = before[n])
    /\ \A m \in DOMAIN after :
         \/ m \in written
         \/ m \in DOMAIN before
         \/ \E n \in DOMAIN before : IsRenameOf(m, n)

\* C20: out_to_in renames every 'confout_X' of the directory to 'confin_X',
\* replacing a 'confin_X' that is there: afterwards no name starts with
\* 'confout_', each 'confin_X' has the content 'confout_X' had, every other
\* file is as it was; the same holds for the directory after _prep_sim_dir,
\* which also writes 'seeds' and 'parameters', whatever runs came before.
C20_OutToIn ==
    /\ result.op = "out_to_in" =>
          RenamedAll(result.before, fs[result.dir], {})
    /\ (result.op = "_prep_sim_dir" /\ result.status = "ok") =>
          /\ RenamedAll(result.before, fs[result.dir], {"seeds", "parameters"})
          /\ {"seeds", "parameters"} \subseteq DOMAIN fs[result.dir]

\* a directory prepared after two runs: the configuration of the second
\* run is the input of the next, that of the first run is gone
C20_Witness ==
    /\ result.op = "_prep_sim_dir"
    /\ result.status = "ok"
    /\ Len(calls) = 2
    /\ "confout_0" \in DOMAIN result.before
    /\ "confin_0" \in DOMAIN result.before
    /\ result.before["confin_0"] = "configuration 1"
    /\ fs[RunDir]["confin_0"] = "configuration 2"
    /\ "confin_1" \in DOMAIN fs[RunDir]

(***************************************************************************)
(* Simulation.run, one step per _prep_sim_dir call and per subprocess.     *)
(* calls lists the preparations of the run in progress, cmds its           *)
(* subprocesses.                                                           *)
(***************************************************************************)
\* subprocess.run(argv, check=True) inside 'with cd(dir)'
InvokedIn(dir, argv, ok) == Append(cmds, [argv |-> argv, cwd |-> dir, ok |-> ok])

\* the directory of temperature i, counted from 0
TempDir(sim_dir, i) == JoinPath(sim_dir, "Temp_" \o ToString(i))

\* a slip: every temperature prepared with the first dictionary
PreparationsFirstOnly(sim) ==
    IF sim.tempering
    THEN << [sim_dir |-> sim.sim_dir, sim_dict |-> sim.sim_dict.dicts[1]] >>
         \o [i \in 1..Len(sim.sim_dict.dicts) |->
               [sim_dir  |-> TempDir(sim.sim_dir, i - 1),
                sim_dict |-> sim.sim_dict.dicts[1]]]
    ELSE << [sim_dir |-> sim.sim_dir, sim_dict |-> sim.sim_dict.dicts[1]] >>

\* the _prep_sim_dir calls of run: the directory and the dictionary of each
Preparations(sim) ==
    IF sim.tempering
    THEN << [sim_dir |-> sim.sim_dir, sim_dict |-> sim.sim_dict.dicts[1]] >>
         \o [i \in 1..Len(sim.sim_dict.dicts) |->
               [sim_dir  |-> TempDir(sim.sim_dir, i - 1),
                sim_dict |-> sim.sim_dict.dicts[i]]]
    ELSE << [sim_dir |-> sim.sim_dir, sim_dict |-> sim.sim_dict.dicts[1]] >>

\* os.path.join(self.alf_dir, 'Prog', 'ALF.out')
ALFExecutable(sim) == JoinPath(JoinPath(sim.alf_dir, "Prog"), "ALF.out")

\* the command run launches
Command(sim) ==
    IF sim.mpi THEN << sim.mpiexec, "-n", sim.n_mpi, ALFExecutable(sim) >>
    ELSE << ALFExecutable(sim) >>

\* the simulations that get run: serial, with MPI, with HDF5, with tempering
RunSims ==
    { SimCall("Hubbard", SimDict(FALSE, << <<Item("L1", "4")>> >>),
              Kwargs({"sim_dir"}, "GNU", "")),
      SimCall("Hubbard", SimDict(FALSE, << <<Item("L1", "4")>> >>),
              Kwargs({"sim_dir", "mpi", "n_mpi", "mpiexec", "hdf5"}, "GNU", "")),
      SimCall("Hubbard", SimDict(TRUE, << <<Item("L1", "4")>>, <<Item("L1", "6")>> >>),
              Kwargs({"sim_dir", "n_mpi"}, "GNU", "")) }

\* the dictionaries of these simulations, and the parameter file of each
RunDicts == { << Item("L1", "4") >>, << Item("L1", "6") >> }

RunParameterFiles == [d \in RunDicts |-> ParametersFile("Hubbard", d)]

\* Simulation.run is called
RunCall ==
    /\ pc = "idle"
    /\ \E c \in RunSims :
         LET sim == Simulation(c.ham_name, c.sim_dict, c.alf_dir, c.kwargs).value
         IN  args' = [fn |-> "run", self |-> sim, todo |-> Preparations(sim),
                      called_in |-> cwd]
    /\ pc' = "prep"
    /\ calls' = << >>
    /\ cmds' = << >>
    /\ result' = [op |-> "run", status |-> "running", value |-> << >>]
    /\ UNCHANGED <<lines, fs, alf, cwd>>

\* the next _prep_sim_dir(self.alf_dir, sim_dir, self.ham_name, sim_dict)
RunPrep ==
    /\ pc = "prep"
    /\ LET job == Head(args.todo)
           p   == Prepared(fs, alf.files, job.sim_dir,
                           RunParameterFiles[job.sim_dict])
       IN  /\ calls' = Append(calls, [sim_dir  |-> job.sim_dir,
                                      ham_name |-> args.self.ham_name,
                                      sim_dict |-> job.sim_dict,
                                      status   |-> p.status])
           /\ IF p.status # "ok"
              THEN /\ fs' = p.tree
                   /\ result' = Outcome("run", Raised(p.status))
                   /\ pc' = "idle"
                   /\ UNCHANGED args
              ELSE /\ \E listing \in Listings(p.tree[job.sim_dir]) :
                        fs' = [p.tree EXCEPT ![job.sim_dir] = out_to_in(@, listing)]
                   /\ args' = [args EXCEPT !.todo = Tail(@)]
                   /\ pc' = IF Tail(args.todo) = << >> THEN "getenv" ELSE "prep"
                   /\ UNCHANGED result
    /\ UNCHANGED <<lines, alf, cwd, cmds>>

\* env = getenv(self.config, self.alf_dir)
RunGetEnv ==
    /\ pc = "getenv"
    /\ \E ok \in BOOLEAN :
         /\ cmds' = InvokedIn(args.self.alf_dir, Configure(args.self.config), ok)
         /\ IF ok
            THEN /\ alf' = [alf EXCEPT !.files =
                              ("environment" :> args.self.config) @@ @]
                 /\ pc' = "launch"
                 /\ UNCHANGED result
            ELSE /\ result' = Outcome("run", Raised("CalledProcessError"))
                 /\ pc' = "idle"
                 /\ UNCHANGED alf
    /\ UNCHANGED <<lines, fs, cwd, args, calls>>

\* the executable is launched inside 'with cd(self.sim_dir)'; when it
\* succeeds it has left its configurations where it ran
RunLaunch ==
    /\ pc = "launch"
    /\ \E ok \in BOOLEAN :
         /\ cmds' = InvokedIn(args.self.sim_dir, Command(args.self), ok)
         /\ IF ok
            THEN /\ \E names \in ConfoutNames :
                      LET dirs == Range(AnalysedDirs(args.self))
                      IN  fs' = [d \in DOMAIN fs |->
                                   IF d \in dirs
                                   THEN [n \in names |-> "configuration"] @@ fs[d]
                                   ELSE fs[d]]
                 /\ result' = Outcome("run", Returned(None))
            ELSE /\ result' = Outcome("run",
                                Raised("Error while running "
                                       \o ALFExecutable(args.self) \o "."))
                 /\ UNCHANGED fs
         /\ cwd' = CdExit([saved_path |-> cwd])
         /\ pc' = "idle"
    /\ UNCHANGED <<lines, alf, args, calls>>

InitRun ==
    /\ lines = << >>
    /\ result = NoResult
    /\ fs \in PrepTrees
    /\ alf \in ALFTrees
    /\ cwd = Home
    /\ cmds = << >>
    /\ pc = "idle"
    /\ args = NoArgs
    /\ calls = << >>

NextRun == RunCall \/ RunPrep \/ RunGetEnv \/ RunLaunch

SpecRun == InitRun /\ [][NextRun]_vars

\* the preparations a run has to make, in their order: sim_dir with the
\* only or the first dictionary, then every Temp_i with dictionary i
Due(sim) ==
    IF sim.sim_dict.isList
    THEN [k \in 1..(Len(sim.sim_dict.dicts) + 1) |->
            IF k = 1
            THEN [dir |-> sim.sim_dir, dict |-> sim.sim_dict.dicts[1]]
            ELSE [dir  |-> sim.sim_dir \o "/Temp_" \o ToString(k - 2),
                  dict |-> sim.sim_dict.dicts[k - 1]]]
    ELSE << [dir |-> sim.sim_dir, dict |-> sim.sim_dict.dicts[1]] >>

\* the preparations made are the first of the due ones, and only the last
\* of them can have failed
PreparedInOrder ==
    /\ Len(calls) <= Len(Due(args.self))
    /\ \A k \in 1..Len(calls) :
         /\ calls[k].sim_dir = Due(args.self)[k].dir
         /\ calls[k].sim_dict = Due(args.self)[k].dict
         /\ calls[k].ham_name = args.self.ham_name
         /\ k < Len(calls) => calls[k].status = "ok"

\* every due directory holds the parameters of its dictionary and no
\* output configuration
AllPrepared ==
    /\ Len(calls) = Len(Due(args.self))
    /\ \A k \in 1..Len(calls) :
         /\ calls[k].status = "ok"
         /\ calls[k].sim_dir \in DOMAIN fs
         /\ "parameters" \in DOMAIN fs[calls[k].sim_dir]
         /\ fs[calls[k].sim_dir]["parameters"]
               = ParametersFile(args.self.ham_name, calls[k].sim_dict).text

\* an invocation of the executable
IsLaunch(c) == c.argv[Len(c.argv)] = args.self.alf_dir \o "/Prog/ALF.out"

\* the executable is launched last and at most once, from sim_dir, with
\* the launcher and the number of processes when MPI is used
LaunchedOnce ==
    \A i \in 1..Len(cmds) :
       IsLaunch(cmds[i]) =>
          /\ i = Len(cmds)
          /\ i = 2
          /\ cmds[1].ok
          /\ cmds[i].cwd = args.self.sim_dir
          /\ cmds[i].argv =
                IF args.self.mpi
                THEN << args.self.mpiexec, "-n", args.self.n_mpi,
                        args.self.alf_dir \o "/Prog/ALF.out" >>
                ELSE << args.self.alf_dir \o "/Prog/ALF.out" >>

\* a run has ended: it returned after the one launch, or raised
RunEnded ==
    /\ cwd = args.called_in
    /\ result.status # "running"
    /\ result.status = "ok" <=>
          (Len(cmds) = 2 /\ IsLaunch(cmds[2]) /\ cmds[2].ok)
    /\ (cmds # << >> /\ IsLaunch(cmds[Len(cmds)]) /\ ~cmds[Len(cmds)].ok) =>
          result.status = "Error while running " \o args.self.alf_dir
                          \o "/Prog/ALF.out."

\* C21: Simulation.run prepares sim_dir with sim_dict, or for a tempering
\* simulation sim_dir with the first dictionary and then every Temp_i with
\* dictionary i, all before the executable is launched; it launches the
\* executable once, from sim_dir, through the MPI launcher with -n n_mpi
\* when mpi is set and bare otherwise; when the executable fails, run
\* raises.
C21_Run ==
    args.fn = "run" =>
        /\ PreparedInOrder
        /\ cmds # << >> => AllPrepared
        /\ pc = "launch" =>
              \A k \in 1..Len(calls) :
                 \A n \in DOMAIN fs[calls[k].sim_dir] : ~StartsWith(n, "confout_")
        /\ LaunchedOnce
        /\ pc = "idle" => RunEnded

\* a tempering run whose executable failed: three preparations, the
\* second temperature with the second dictionary, then the launcher
C21_Witness ==
    /\ args.fn = "run"
    /\ pc = "idle"
    /\ Len(calls) = 3
    /\ calls[3].sim_dir = "/home/user/ALF_data/run_1/Temp_1"
    /\ calls[3].sim_dict = << Item("L1", "6") >>
    /\ Len(cmds) = 2
    /\ cmds[2].argv = << "mpiexec", "-n", "4", "/home/user/ALF/Prog/ALF.out" >>
    /\ cmds[2].cwd = "/home/user/ALF_data/run_1"
    /\ ~cmds[2].ok
    /\ result.status = "Error while running /home/user/ALF/Prog/ALF.out."

(***************************************************************************)
(* The configuration string of a constructed Simulation, for every choice  *)
(* of the options that enter it.                                           *)
(***************************************************************************)
\* keyword arguments with the given values of mpi and n_mpi
KwargsWith(names, machine, stab, mpi, n_mpi) ==
    [Kwargs(names, machine, stab) EXCEPT !.values.mpi = mpi,
                                         !.values.n_mpi = n_mpi]

\* a dictionary or a list of two, with any of the options that enter the
\* configuration, mpi passed as True or False, n_mpi as a number or None
ConfigInputs ==
    { SimCall("Hubbard", sd, KwargsWith(names, machine, stab, mpi, n_mpi)) :
        sd \in { SimDict(FALSE, << <<Item("L1", "4")>> >>),
                 SimDict(TRUE, << <<Item("L1", "4")>>, <<Item("L1", "8")>> >>) },
        names \in SUBSET {"mpi", "n_mpi", "machine", "stab", "devel", "hdf5"},
        machine \in {"Intel", "supermuc-ng"},
        stab \in {"", "log"},
        mpi \in BOOLEAN,
        n_mpi \in {"4", None} }

InitConfig ==
    /\ lines = << >>
    /\ result = NoResult
    /\ fs = NoDir
    /\ alf = NoDir
    /\ cwd = Home
    /\ cmds = << >>
    /\ pc = "idle"
    /\ args \in ConfigInputs
    /\ calls = << >>

SpecConfig == InitConfig /\ [][Construct]_vars

\* the words of a text: what lies between its blanks
RECURSIVE Words(_, _)
Words(text, word) ==
    IF text = "" THEN (IF word = "" THEN << >> ELSE << word >>)
    ELSE IF Head(text) = " "
    THEN (IF word = "" THEN << >> ELSE << word >>) \o Words(Tail(text), "")
    ELSE Words(Tail(text), word \o Head(text))

\* how often a word is among the words of a text
Count(text, word) ==
    Cardinality({ i \in 1..Len(Words(text, "")) : Words(text, "")[i] = word })

\* mpi is in effect: asked for, or implied by a list of dictionaries
MpiInEffect ==
    \/ args.sim_dict.isList
    \/ ("mpi" \in args.kwargs.names /\ args.kwargs.values.mpi)

\* n_mpi was given
NMpiGiven ==
    "n_mpi" \in args.kwargs.names /\ args.kwargs.values.n_mpi # None

\* C22: a constructed Simulation has a config with exactly one of the
\* words MPI and NOMPI, MPI exactly when self.mpi is true, and
\* NO-INTERACTIVE at its end; constructed from a list it has mpi true
\* whatever the mpi argument, MPI and TEMPERING in config and an n_mpi that
\* is not None; construction raises when mpi is in effect without n_mpi.
C22_Config ==
    result.op = "Simulation" =>
       /\ (MpiInEffect /\ ~NMpiGiven) => result.status # "ok"
       /\ result.status = "ok" =>
            LET self == result.value
            IN  /\ Count(self.config, "MPI") + Count(self.config, "NOMPI") = 1
                /\ Count(self.config, "MPI") = 1 <=> self.mpi
                /\ self.mpi <=> MpiInEffect
                /\ EndsWith(self.config, " NO-INTERACTIVE")
                /\ args.sim_dict.isList =>
                     /\ self.mpi
                     /\ Count(self.config, "MPI") = 1
                     /\ Count(self.config, "TEMPERING") = 1
                     /\ self.n_mpi # None

\* constructed from a list with mpi=False passed: mpi is true all the same
C22_Witness ==
    /\ result.op = "Simulation"
    /\ result.status = "ok"
    /\ args.sim_dict.isList
    /\ "mpi" \in args.kwargs.names
    /\ ~args.kwargs.values.mpi
    /\ result.value.mpi
    /\ result.value.n_mpi = "4"
    /\ result.value.config = "INTEL LOG MPI TEMPERING HDF5 NO-INTERACTIVE"

(***************************************************************************)
(* Scripts/test_branch.py: test_branch constructs a reference and a test   *)
(* Simulation and takes each through compilation, run and analysis, which  *)
(* are the calls modelled above and here succeed or raise.                 *)
(***************************************************************************)
\* sim_pars["Hubbard_Plain_Vanilla"], sim_pars["Kondo"] and a dictionary
\* without the key ham_name
sim_pars ==
    [ Hubbard_Plain_Vanilla |->
        << Item("ham_name", "Hubbard_Plain_Vanilla"),
           Item("Model", "Hubbard_Plain_Vanilla"),
           Item("Lattice_type", "Square"), Item("L1", "4"), Item("L2", "4"),
           Item("Beta", "1.0"), Item("Nsweep", "20"), Item("NBin", "5"),
           Item("Ltau", "1"), Item("Dtau", "0.05"), Item("Projector", "True") >>,
      Kondo |->
        << Item("ham_name", "Kondo"), Item("Model", "Kondo"),
           Item("Lattice_type", "Bilayer_square"), Item("L1", "4"),
           Item("L2", "4"), Item("Ham_Uf", "1.0"), Item("Beta", "5.0"),
           Item("Nsweep", "20"), Item("NBin", "5"), Item("Ltau", "1") >>,
      Plain |->
        << Item("Model", "Hubbard"), Item("Lattice_type", "Square"),
           Item("L1", "4"), Item("L2", "4") >> ]

\* sim_dict.get(key): the value of the key, None without it
Get(d, key) ==
    IF \E i \in 1..Len(d) : d[i].name = key
    THEN d[CHOOSE i \in 1..Len(d) : d[i].name = key].value
    ELSE None

\* sim_dict.pop(key, default): the value, and the dictionary without the key
PopItem(d, key, default) ==
    LET NotKey(item) == item.name # key
    IN  [value |-> IF Get(d, key) = None THEN default ELSE Get(d, key),
         rest  |-> SelectSeq(d, NotKey)]

\* the default of the parameter machine and of the option --machine
DefaultMachine == "DEVELOPMENT"

\* the machine argument: left out, or one of these
MachineArgs ==
    { [given |-> FALSE, value |-> DefaultMachine] }
    \cup { [given |-> TRUE, value |-> m] : m \in {"GNU", "intel", "PGI"} }

\* Simulation(ham_name, sim_dict, alf_dir, machine=machine, branch=branch,
\* mpi=mpi, n_mpi=n_mpi)
TestSimulation(frame, branch) ==
    Simulation(frame.ham_name, SimDict(FALSE, << frame.sim_dict >>), "ALF",
               [names  |-> {"machine", "branch", "mpi", "n_mpi"},
                values |-> [KwargsWith({}, frame.machine, "", frame.mpi, "4").values
                              EXCEPT !.branch = branch]])

\* test_branch raises
TestRaise(exc) ==
    /\ result' = Outcome("test_branch", Raised(exc))
    /\ pc' = "idle"

\* test_branch is called: ham_name is taken out of sim_dict and the
\* reference simulation is constructed
TestBranchCall ==
    /\ pc = "idle"
    /\ \E name \in DOMAIN sim_pars, machine \in MachineArgs, mpi \in BOOLEAN :
         LET popped == PopItem(sim_pars[name], "ham_name",
                               Get(sim_pars[name], "Model"))
             frame  == [fn |-> "test_branch", sim_name |-> name,
                        ham_name |-> popped.value, sim_dict |-> popped.rest,
                        machine_given |-> machine.given,
                        machine |-> machine.value, mpi |-> mpi]
             sim_R  == TestSimulation(frame, "master")
         IN  /\ args' = frame
             /\ calls' = << [sim |-> "sim_R", status |-> sim_R.status] >>
             /\ IF sim_R.status # "ok" THEN TestRaise(sim_R.status)
                ELSE /\ pc' = "reference"
                     /\ result' = [op |-> "test_branch", status |-> "running",
                                   value |-> << >>]
    /\ UNCHANGED <<lines, fs, alf, cwd, cmds>>

\* sim_R.compile(), run(), analysis(), get_obs(); then the test simulation
\* is constructed
TestReference ==
    /\ pc = "reference"
    /\ \E ok \in BOOLEAN :
         IF ~ok THEN TestRaise("Exception") /\ UNCHANGED calls
         ELSE LET sim_T == TestSimulation(args, "devel")
              IN  /\ calls' = Append(calls, [sim |-> "sim_T",
                                             status |-> sim_T.status])
                  /\ IF sim_T.status # "ok" THEN TestRaise(sim_T.status)
                     ELSE pc' = "test" /\ UNCHANGED result
    /\ UNCHANGED <<lines, fs, alf, cwd, cmds, args>>

\* sim_T.compile(), run(), analysis(), get_obs(); then the observables are
\* compared and test_all is returned
TestCompare ==
    /\ pc = "test"
    /\ \E ok \in BOOLEAN, test_all \in {"True", "False"} :
         IF ~ok THEN TestRaise("Exception")
         ELSE /\ result' = Outcome("test_branch", Returned(test_all))
              /\ pc' = "idle"
    /\ UNCHANGED <<lines, fs, alf, cwd, cmds, args, calls>>

InitTest ==
    /\ lines = << >>
    /\ result = NoResult
    /\ fs = NoDir
    /\ alf \in ALFTrees
    /\ cwd \in {Home, "/scratch"}
    /\ cmds = << >>
    /\ pc = "idle"
    /\ args = NoArgs
    /\ calls = << >>

NextTest == TestBranchCall \/ TestReference \/ TestCompare

SpecTest == InitTest /\ [][NextTest]_vars

\* C23: test_branch called without a machine, that is with the default
\* 'DEVELOPMENT', which is also the default of --machine, constructs its
\* reference and its test Simulation without the constructor raising.
C23_DefaultMachineAccepted ==
    (args.fn = "test_branch" /\ ~args.machine_given) =>
        \A i \in 1..Len(calls) : calls[i].status = "ok"

====
